---- MODULE Spec2Model ----
(***************************************************************************)
(* A state-machine model of the kernel core of src/kernel.c: the page-frame *)
(* table (pageinfo), the per-process page tables, the process table, the   *)
(* trap dispatcher exception() with its system calls and page-fault        *)
(* handler, and the round-robin scheduler.                                 *)
(*                                                                         *)
(* Sizes are scaled down: addresses are counted in units of which PAGESIZE *)
(* make a page, machine words are WordBits wide, physical memory has       *)
(* NPAGES frames and a virtual address space has NVPAGES pages.            *)
(* The routines kernel.c calls but does not define (palloc,                *)
(* virtual_memory_map, virtual_memory_lookup, process_config_tables,       *)
(* process_load, process_setup_stack, process_free) are modelled from the  *)
(* design document.                                                        *)
(***************************************************************************)
EXTENDS Integers, FiniteSets, Sequences, TLC

VARIABLES pageinfo, pagetable, zeroed, processes, current, ticks, last, law,
          heap, ulast

vars == <<pageinfo, pagetable, zeroed, processes, current, ticks, last, law,
          heap, ulast>>

(* The kernel's variables and the user-mode allocator's variables.  The    *)
(* allocator of malloc.c runs in one process's user mode; its state is the *)
(* block headers it wrote into the heap, its globals and that process's    *)
(* program break as the allocator sees it through sbrk.                    *)
kvars == <<pageinfo, pagetable, zeroed, processes, current, ticks, last, law>>
uvars == <<heap, ulast>>

(* A null pointer, and the heap before the first malloc call: no header    *)
(* written, head null, no live allocation, the break at its start.         *)
(* The allocator's arithmetic is uint64_t arithmetic; UWORD scales 2^64.   *)
(* The heap starts at HEAP_BASE, the break the process was loaded with,    *)
(* and sbrk refuses a break at or above HEAP_LIMIT (the stack page).  The  *)
(* heap is modelled word by word: mem[a] is the 8-byte word at address a.  *)
(* Memory the kernel hands out is zero-filled.                             *)
NULL == 0
UWORD == 512
ALIGN == 8
HDR == 32
HEAP_BASE == 64
HEAP_LIMIT == 192
MemAddrs == {a \in HEAP_BASE .. HEAP_LIMIT + HDR - 1 : a % ALIGN = 0}
HeapInit == [mem |-> [a \in MemAddrs |-> 0], head |-> NULL,
             brk |-> HEAP_BASE, total_allocations |-> 0, dead |-> FALSE]

(* ulast records the allocator call just made: the call, its argument, its *)
(* result, whether sbrk was called and with what, and for a malloc or a    *)
(* defrag the allocator's state before the call; a free of the pointer     *)
(* that the call just before it returned keeps the state from before that  *)
(* malloc.                                                                 *)
NoCall == [op |-> "none", arg |-> 0, ret |-> NULL, sbrk |-> -1,
           paired |-> FALSE, pre |-> HeapInit]

(***************************************************************************)
(* Sizes                                                                   *)
(***************************************************************************)
\* units per page (4096 bytes in the program)
PAGESIZE == 2
\* process slots; slot 0 is never used (16 in the program)
NPROC == 3
\* physical frames
NPAGES == 15
\* pages of a virtual address space
NVPAGES == 8
\* pages one leaf page table spans
PTSPAN == 4
\* width of uintptr_t / intptr_t
WordBits == 4
\* the tick counter is an unsigned that wraps; TICKWRAP is its modulus
TICKWRAP == 2

WORD == 2 ^ WordBits
Word == 0 .. (WORD - 1)
MEMSIZE_PHYSICAL == NPAGES * PAGESIZE
MEMSIZE_VIRTUAL == NVPAGES * PAGESIZE
NTABS == (NVPAGES + PTSPAN - 1) \div PTSPAN

Frames == 0 .. (NPAGES - 1)
VPages == 0 .. (NVPAGES - 1)
Pids == 0 .. (NPROC - 1)

\* (uintptr_t) -1
NEG1 == WORD - 1

(***************************************************************************)
(* Physical and virtual layout                                             *)
(***************************************************************************)
\* frame 0: the unused first page (reserved)
\* first frame of the kernel image
KERNEL_START_PN == 1
\* first frame past the kernel image (`end`)
KERNEL_END_PN == 2
\* the kernel stack frame, KERNEL_STACK_TOP - PAGESIZE
KERNEL_STACK_PN == 2
\* the console frame (reserved memory)
CONSOLE_PN == 3
\* first frame of the loader's per-process slots (PROC_START_ADDR)
PROC_START_PN == 4
\* virtual page the loader maps a program image at
CODE_VP == 4

PO_FREE == 0
PO_RESERVED == -1
PO_KERNEL == -2

PTE_P == "P"
PTE_W == "W"
PTE_U == "U"

P_FREE == "P_FREE"
P_RUNNABLE == "P_RUNNABLE"
P_BROKEN == "P_BROKEN"

PAGENUMBER(addr) == addr \div PAGESIZE
PAGEADDRESS(pn) == pn * PAGESIZE
ROUNDDOWN(a, n) == a - (a % n)
ROUNDUP(a, n) == ROUNDDOWN(a + n - 1, n)


(***************************************************************************)
(* Page-frame table                                                        *)
(***************************************************************************)
FrameInfo(o, rc) == [owner |-> o, refcount |-> rc]

\* the reserved physical ranges: the first page and the console
physical_memory_isreserved(pn) == pn = 0 \/ pn = CONSOLE_PN

pageinfo_init ==
    [pn \in Frames |->
        LET owner == IF physical_memory_isreserved(pn) THEN PO_RESERVED
                     ELSE IF (pn >= KERNEL_START_PN /\ pn < KERNEL_END_PN)
                             \/ pn = KERNEL_STACK_PN THEN PO_KERNEL
                     ELSE PO_FREE
        IN  FrameInfo(owner, IF owner # PO_FREE THEN 1 ELSE 0)]

\* assign_physical_page(addr, owner): [r, pi]
assign_physical_page(pi, addr, owner) ==
    IF addr % PAGESIZE # 0
       \/ addr >= MEMSIZE_PHYSICAL
       \/ pi[PAGENUMBER(addr)].refcount # 0
    THEN [r |-> -1, pi |-> pi]
    ELSE [r |-> 0, pi |-> [pi EXCEPT ![PAGENUMBER(addr)] = FrameInfo(owner, 1)]]

FreeFrames(pi) == {f \in Frames : pi[f].refcount = 0}

\* the frames palloc may return: some frame with refcount 0, or 0 (NULL) when
\* there is none
PallocChoices(pi) == IF FreeFrames(pi) = {} THEN {0} ELSE FreeFrames(pi)

\* palloc(owner) returning frame f (f # 0)
palloc(pi, owner, f) == [pi EXCEPT ![f] = FrameInfo(owner, 1)]

\* zeroed[f]: frame f has been zero-filled since it was last handed out; a
\* frame comes out of the allocator with whatever it held before
stale(z, f) == [z EXCEPT ![f] = FALSE]

\* what a free frame holds is not observable: it counts as not zero-filled
contents(z, pi) == [f \in Frames |-> z[f] /\ pi[f].refcount # 0]

\* freepage that leaves the owner in place when the count reaches 0
freepage_keeps_owner(pi, pa) ==
    IF pa = 0 THEN pi
    ELSE LET page_number == ROUNDDOWN(pa, PAGESIZE) \div PAGESIZE
         IN  IF page_number >= NPAGES THEN pi
             ELSE IF pi[page_number].refcount > 0
             THEN [pi EXCEPT ![page_number].refcount = @ - 1]
             ELSE pi

freepage(pi, pa) ==
    IF pa = 0 THEN pi
    ELSE LET aligned_pa == ROUNDDOWN(pa, PAGESIZE)
             page_number == aligned_pa \div PAGESIZE
         IN  IF page_number >= NPAGES THEN pi
             ELSE IF pi[page_number].refcount > 0
             THEN IF pi[page_number].refcount - 1 = 0
                  THEN [pi EXCEPT ![page_number] = FrameInfo(PO_FREE, 0)]
                  ELSE [pi EXCEPT ![page_number].refcount = @ - 1]
             ELSE pi

(***************************************************************************)
(* Page tables.  A page table is a root frame, the leaf tables hanging off *)
(* it (one per PTSPAN pages, allocated when first needed) and the leaf     *)
(* entries.  An empty entry has no permission bit.                         *)
(***************************************************************************)
NoEntry == [pn |-> 0, perm |-> {}]
NoTable == [root |-> 0, tab |-> [t \in 0 .. (NTABS - 1) |-> 0],
            leaf |-> [vp \in VPages |-> NoEntry]]

TableOf(vp) == vp \div PTSPAN

\* virtual_memory_lookup(pagetable, va): pn = -1 means no mapping
virtual_memory_lookup(pt, va) ==
    LET vp == PAGENUMBER(va) IN
    IF vp \in VPages /\ pt.tab[TableOf(vp)] # 0 /\ PTE_P \in pt.leaf[vp].perm
    THEN [pn |-> pt.leaf[vp].pn,
          pa |-> PAGEADDRESS(pt.leaf[vp].pn) + (va % PAGESIZE),
          perm |-> pt.leaf[vp].perm]
    ELSE [pn |-> -1, pa |-> NEG1, perm |-> {}]

\* whether mapping va needs a leaf table that is not there yet
NeedsTable(pt, va) ==
    PAGENUMBER(va) \in VPages /\ pt.tab[TableOf(PAGENUMBER(va))] = 0

\* virtual_memory_map(pagetable, va, pa, PAGESIZE, perm) on the page table of
\* `pid`; K = [pi, pt, z]; tf is the frame palloc returns for a missing leaf
\* table (0: none).  Returns [r, pi, pt, z].
virtual_memory_map(K, pid, va, pa, perm, tf) ==
    LET vp == PAGENUMBER(va)
        t == TableOf(vp)
        entry == IF PTE_P \in perm THEN [pn |-> PAGENUMBER(pa), perm |-> perm]
                 ELSE NoEntry
    IN  IF va % PAGESIZE # 0 \/ vp \notin VPages
        THEN [r |-> -1, pi |-> K.pi, pt |-> K.pt, z |-> K.z]
        ELSE IF K.pt[pid].tab[t] # 0
        THEN [r |-> 0, pi |-> K.pi,
              pt |-> [K.pt EXCEPT ![pid].leaf[vp] = entry], z |-> K.z]
        ELSE IF PTE_P \notin perm
        THEN [r |-> 0, pi |-> K.pi, pt |-> K.pt, z |-> K.z]
        ELSE IF tf = 0
        THEN [r |-> -1, pi |-> K.pi, pt |-> K.pt, z |-> K.z]
        ELSE [r |-> 0,
              pi |-> palloc(K.pi, K.pi[K.pt[pid].root].owner, tf),
              pt |-> [K.pt EXCEPT ![pid].tab[t] = tf, ![pid].leaf[vp] = entry],
              z |-> [K.z EXCEPT ![tf] = TRUE]]

\* virtual_memory_unmap that clears the entry and forgets the frame
virtual_memory_unmap_leak(K, pid, va) ==
    LET map == virtual_memory_lookup(K.pt[pid], va)
        m == virtual_memory_map(K, pid, va, 0, {}, 0)
    IN  IF map.pn = -1 THEN [r |-> 0, pi |-> K.pi, pt |-> K.pt, z |-> K.z]
        ELSE [r |-> m.r, pi |-> m.pi, pt |-> m.pt, z |-> m.z]

\* virtual_memory_unmap(pagetable, va): [r, pi, pt, z]
virtual_memory_unmap(K, pid, va) ==
    LET map == virtual_memory_lookup(K.pt[pid], va)
        m == virtual_memory_map(K, pid, va, 0, {}, 0)
    IN  IF map.pn = -1 THEN [r |-> 0, pi |-> K.pi, pt |-> K.pt, z |-> K.z]
        ELSE IF m.r < 0 THEN [r |-> -1, pi |-> m.pi, pt |-> m.pt, z |-> m.z]
        ELSE [r |-> 0,
              pi |-> IF map.pa # 0 THEN freepage(m.pi, map.pa) ELSE m.pi,
              pt |-> m.pt, z |-> m.z]

(***************************************************************************)
(* Process setup at boot.  At boot the frames are handed out in a fixed    *)
(* order: the loader takes the process's slot, palloc the lowest free      *)
(* frame past the loader's slots.                                          *)
(***************************************************************************)
\* frames of one loader slot (PROC_SIZE)
PROC_SIZE_PN == 1
LOADER_END_PN == PROC_START_PN + (NPROC - 1) * PROC_SIZE_PN

BootFrame(pi) ==
    LET cand == {f \in FreeFrames(pi) : f >= LOADER_END_PN}
    IN  IF cand = {} THEN 0
        ELSE CHOOSE f \in cand : \A g \in cand : f <= g

\* the entries of the kernel's own page table: the identity mapping of
\* [0, end of kernel) and of the kernel stack, and the console
kernel_pagetable_entry(vp) ==
    IF vp = CONSOLE_PN THEN [pn |-> vp, perm |-> {PTE_P, PTE_U}]
    ELSE IF vp < KERNEL_END_PN \/ vp = KERNEL_STACK_PN
    THEN [pn |-> vp, perm |-> {PTE_P, PTE_W}]
    ELSE NoEntry

KernelVPages == {vp \in VPages : kernel_pagetable_entry(vp) # NoEntry}

RECURSIVE MapKernelHalf(_, _, _)
MapKernelHalf(K, pid, vp) ==
    IF vp \notin VPages THEN K
    ELSE IF vp \notin KernelVPages THEN MapKernelHalf(K, pid, vp + 1)
    ELSE LET e == kernel_pagetable_entry(vp)
             m == virtual_memory_map(K, pid, PAGEADDRESS(vp), PAGEADDRESS(e.pn),
                                     e.perm, BootFrame(K.pi))
         IN  MapKernelHalf([pi |-> m.pi, pt |-> m.pt, z |-> m.z], pid, vp + 1)

\* process_config_tables(pid): a fresh root owned by pid, the kernel half
\* copied from the kernel's page table
process_config_tables(K, pid) ==
    LET root == BootFrame(K.pi)
        K1 == [pi |-> palloc(K.pi, pid, root),
               pt |-> [K.pt EXCEPT ![pid] = [NoTable EXCEPT !.root = root]],
               z |-> [K.z EXCEPT ![root] = TRUE]]
    IN  MapKernelHalf(K1, pid, 0)

\* process_load(p, program_number): the loader assigns the slot's frame to the
\* process and maps the image read-only for the user
process_load(K, pid) ==
    LET addr == PAGEADDRESS(PROC_START_PN + (pid - 1) * PROC_SIZE_PN)
        a == assign_physical_page(K.pi, addr, pid)
        K1 == [pi |-> a.pi, pt |-> K.pt, z |-> [K.z EXCEPT ![PAGENUMBER(addr)] = FALSE]]
        m == virtual_memory_map(K1, pid, PAGEADDRESS(CODE_VP), addr,
                                {PTE_P, PTE_U}, BootFrame(K1.pi))
    IN  [pi |-> m.pi, pt |-> m.pt, z |-> m.z]

STACK_VP == NVPAGES - 1

\* process_setup_stack(p): a user-writable frame just below the top of the
\* address space
process_setup_stack(K, pid) ==
    LET f == BootFrame(K.pi)
        K1 == [pi |-> palloc(K.pi, pid, f), pt |-> K.pt, z |-> K.z]
        m == virtual_memory_map(K1, pid, PAGEADDRESS(STACK_VP), PAGEADDRESS(f),
                                {PTE_P, PTE_W, PTE_U}, BootFrame(K1.pi))
    IN  [pi |-> m.pi, pt |-> m.pt, z |-> m.z]

\* the break right after load: the first page above the image
INITIAL_BREAK == PAGEADDRESS(CODE_VP + 1)

FreeProc == [p_state |-> P_FREE, original_break |-> 0, program_break |-> 0]

\* process_setup(pid, program_number): [pi, pt, z]
process_setup(K, pid) ==
    process_setup_stack(process_load(process_config_tables(K, pid), pid), pid)

RECURSIVE SetupAll(_, _, _)
SetupAll(K, pid, n) ==
    IF pid > n THEN K ELSE SetupAll(process_setup(K, pid), pid + 1, n)

\* the processes each boot command sets up
Commands == {"default", "test2"}
NBoot(command) == IF command = "test2" THEN 2 ELSE 1

\* kernel(command), up to run(&processes[1])
Boot(command) ==
    SetupAll([pi |-> pageinfo_init, pt |-> [p \in Pids |-> NoTable],
              z |-> [f \in Frames |-> FALSE]], 1, NBoot(command))

\* `last` records the trap (or user access) of the step that led to the
\* state, as an observer outside the kernel sees it: which trap, the process
\* that trapped, the value the handler left in reg_rax (NORAX: none), the
\* faulting address or the requested break (NOADDR: none, or a request out of
\* bounds), what was asked for (`kind`, told from the arguments and the state
\* before, not from what the handler did), whether an sbrk sum wrapped,
\* whether the faulting page was present, how many frames the step
\* released, and the frames the kernel wrote user-requested data into
NORAX == WORD
NOADDR == WORD
NoTrap == [trap |-> "boot", pid |-> 0, rax |-> NORAX, addr |-> NOADDR,
           kind |-> "none", wrap |-> FALSE, present |-> FALSE, freed |-> 0,
           wrote |-> {}]

Released(pi, pi2) == Cardinality({f \in Frames : pi2[f].refcount < pi[f].refcount})
NoLaw == [phase |-> "idle"]

Init ==
    \E command \in Commands :
        LET K == Boot(command) IN
        /\ pageinfo = K.pi
        /\ pagetable = K.pt
        /\ zeroed = K.z
        /\ processes = [p \in Pids |->
                          IF p >= 1 /\ p <= NBoot(command)
                          THEN [p_state |-> P_RUNNABLE,
                                original_break |-> INITIAL_BREAK,
                                program_break |-> INITIAL_BREAK]
                          ELSE FreeProc]
        /\ current = 1
        /\ ticks = 0
        /\ last = NoTrap
        /\ law = NoLaw
        /\ heap = HeapInit
        /\ ulast = NoCall

(***************************************************************************)
(* Scheduler                                                               *)
(***************************************************************************)
\* schedule(): the slot run next, scanning from pid; -1 when the scan finds
\* nothing runnable (the kernel spins forever, interrupts disabled)
\* a scan that starts at slot 0 whatever the current pid
schedule_scan_from_zero(procs, pid, n) ==
    LET run == {q \in Pids : procs[q].p_state = P_RUNNABLE} IN
    IF run = {} THEN -1 ELSE CHOOSE q \in run : \A r \in run : q <= r

RECURSIVE schedule_scan(_, _, _)
schedule_scan(procs, pid, n) ==
    LET next == (pid + 1) % NPROC IN
    IF procs[next].p_state = P_RUNNABLE THEN next
    ELSE IF n >= NPROC THEN -1
    ELSE schedule_scan(procs, next, n + 1)

schedule(procs, cur) == schedule_scan(procs, cur, 1)

\* a return path that runs current whatever its state
resume_unchecked(procs, cur) == cur

\* a return path that enters the scheduler after every trap
resume_always_schedules(procs, cur) ==
    IF schedule(procs, cur) = -1 THEN cur ELSE schedule(procs, cur)

\* the end of exception(): run(current) if it is runnable, else schedule();
\* the value is the new `current` (unchanged while the kernel spins)
resume(procs, cur) ==
    IF procs[cur].p_state = P_RUNNABLE THEN cur
    ELSE IF schedule(procs, cur) = -1 THEN cur ELSE schedule(procs, cur)

\* a reschedule point: schedule() whatever the state of current
reschedule(procs, cur) ==
    IF schedule(procs, cur) = -1 THEN cur ELSE schedule(procs, cur)

(***************************************************************************)
(* brk / sbrk                                                              *)
(***************************************************************************)
\* the unmap loop of sbrk: pages from addr up to top; [r, pi, pt, z]
RECURSIVE sbrk_unmap(_, _, _, _)
sbrk_unmap(K, pid, addr, top) ==
    IF addr >= top THEN [r |-> 0, pi |-> K.pi, pt |-> K.pt, z |-> K.z]
    ELSE LET u == virtual_memory_unmap(K, pid, addr) IN
         IF u.r < 0 THEN [r |-> -1, pi |-> u.pi, pt |-> u.pt, z |-> u.z]
         ELSE sbrk_unmap([pi |-> u.pi, pt |-> u.pt, z |-> u.z], pid,
                         addr + PAGESIZE, top)

\* the bounds check with > for >= at the top
sbrk_bounds_off_by_one(p, newbreak) ==
    newbreak < p.original_break \/ newbreak > MEMSIZE_VIRTUAL - PAGESIZE

\* the bounds check without its lower bound
sbrk_bounds_no_lower(p, newbreak) == newbreak >= MEMSIZE_VIRTUAL - PAGESIZE

\* the bounds check of sbrk on the new break
sbrk_out_of_bounds(p, newbreak) ==
    newbreak < p.original_break \/ newbreak >= MEMSIZE_VIRTUAL - PAGESIZE

\* growing that page-aligns the break it stores
sbrk_grow_aligns(K, newbreak) ==
    [r |-> 0, pi |-> K.pi, pt |-> K.pt, z |-> K.z,
     brk |-> ROUNDUP(newbreak, PAGESIZE)]

\* the growing branch of sbrk: only the break moves
sbrk_grow(K, newbreak) ==
    [r |-> 0, pi |-> K.pi, pt |-> K.pt, z |-> K.z, brk |-> newbreak]

\* shrinking that starts at the page holding the new break
sbrk_shrink_rounddown(K, pid, oldbreak, newbreak) ==
    LET u == sbrk_unmap(K, pid, ROUNDDOWN(newbreak, PAGESIZE),
                        ROUNDUP(oldbreak, PAGESIZE))
    IN  [r |-> u.r, pi |-> u.pi, pt |-> u.pt, z |-> u.z,
         brk |-> IF u.r < 0 THEN oldbreak ELSE newbreak]

\* the shrinking branch of sbrk: unmap the pages no longer needed
sbrk_shrink(K, pid, oldbreak, newbreak) ==
    LET u == sbrk_unmap(K, pid, ROUNDUP(newbreak, PAGESIZE),
                        ROUNDUP(oldbreak, PAGESIZE))
    IN  [r |-> u.r, pi |-> u.pi, pt |-> u.pt, z |-> u.z,
         brk |-> IF u.r < 0 THEN oldbreak ELSE newbreak]

\* sbrk(p, difference): [r, pi, pt, z, brk]; difference is the two's
\* complement word, the sum is taken modulo the word size
sbrk(K, procs, pid, difference) ==
    LET p == procs[pid]
        oldbreak == p.program_break
        newbreak == (oldbreak + difference) % WORD
    IN  IF sbrk_out_of_bounds(p, newbreak)
        THEN [r |-> -1, pi |-> K.pi, pt |-> K.pt, z |-> K.z, brk |-> oldbreak]
        ELSE IF newbreak > oldbreak THEN sbrk_grow(K, newbreak)
        ELSE IF newbreak < oldbreak THEN sbrk_shrink(K, pid, oldbreak, newbreak)
        ELSE [r |-> 0, pi |-> K.pi, pt |-> K.pt, z |-> K.z, brk |-> oldbreak]

\* what a request for the break `target` asks for, told from the bounds alone
RequestKind(p, target) ==
    IF target < p.original_break \/ target >= MEMSIZE_VIRTUAL - PAGESIZE
    THEN "oob"
    ELSE IF target > p.program_break THEN "grow"
    ELSE IF target < p.program_break THEN "shrink"
    ELSE "same"

UserMode == processes[current].p_state = P_RUNNABLE

\* exception(): INT_SYS_SBRK
SysSbrk(increment) ==
    /\ UserMode
    /\ LET K == [pi |-> pageinfo, pt |-> pagetable, z |-> zeroed]
           old_break == processes[current].program_break
           target == (old_break + increment) % WORD
           s == sbrk(K, processes, current, increment)
       IN  /\ pageinfo' = s.pi
           /\ pagetable' = s.pt
           /\ zeroed' = contents(s.z, s.pi)
           /\ processes' = [processes EXCEPT ![current].program_break = s.brk]
           /\ last' = [NoTrap EXCEPT
                         !.trap = "sbrk", !.pid = current,
                         !.rax = IF s.r < 0 THEN NEG1 ELSE old_break,
                         !.kind = RequestKind(processes[current], target),
                         !.addr = IF RequestKind(processes[current], target) = "oob"
                                  THEN NOADDR ELSE target,
                         !.wrap = (old_break + increment >= WORD),
                         !.freed = Released(pageinfo, s.pi)]
           /\ current' = resume(processes', current)
    /\ UNCHANGED ticks

\* exception(): INT_SYS_BRK
SysBrk(requested_break) ==
    /\ UserMode
    /\ LET K == [pi |-> pageinfo, pt |-> pagetable, z |-> zeroed]
           increment == (requested_break - processes[current].program_break) % WORD
           s == sbrk(K, processes, current, increment)
       IN  /\ pageinfo' = s.pi
           /\ pagetable' = s.pt
           /\ zeroed' = contents(s.z, s.pi)
           /\ processes' = [processes EXCEPT ![current].program_break = s.brk]
           /\ last' = [NoTrap EXCEPT
                         !.trap = "brk", !.pid = current,
                         !.rax = IF s.r < 0 THEN NEG1 ELSE 0,
                         !.kind = RequestKind(processes[current], requested_break),
                         !.addr = IF RequestKind(processes[current], requested_break) = "oob"
                                  THEN NOADDR ELSE requested_break,
                         !.freed = Released(pageinfo, s.pi)]
           /\ current' = resume(processes', current)
    /\ UNCHANGED ticks

(***************************************************************************)
(* Timer, yield, getpid                                                    *)
(***************************************************************************)
\* exception(): INT_TIMER
Timer ==
    /\ UserMode
    /\ ticks' = (ticks + 1) % TICKWRAP
    /\ current' = reschedule(processes, current)
    /\ last' = [NoTrap EXCEPT !.trap = "timer", !.pid = current]
    /\ UNCHANGED <<pageinfo, pagetable, zeroed, processes>>

\* exception(): INT_SYS_YIELD
SysYield ==
    /\ UserMode
    /\ current' = reschedule(processes, current)
    /\ last' = [NoTrap EXCEPT !.trap = "yield", !.pid = current]
    /\ UNCHANGED <<pageinfo, pagetable, zeroed, processes, ticks>>

\* exception(): INT_SYS_GETPID
SysGetpid ==
    /\ UserMode
    /\ current' = resume(processes, current)
    /\ last' = [NoTrap EXCEPT !.trap = "getpid", !.pid = current, !.rax = current]
    /\ UNCHANGED <<pageinfo, pagetable, zeroed, processes, ticks>>

(***************************************************************************)
(* User accesses and the page-fault handler                                *)
(***************************************************************************)
\* the MMU lets a user-mode access through when the page is present and
\* user-accessible, and writable for a write
MMUAllows(pt, va, write) ==
    LET m == virtual_memory_lookup(pt, va) IN
    /\ PTE_P \in m.perm
    /\ PTE_U \in m.perm
    /\ write => PTE_W \in m.perm

\* addresses a user program may touch
UserAddrs == Word

\* a user access that does not trap: the kernel is not entered
UserAccess(va, write) ==
    /\ UserMode
    /\ MMUAllows(pagetable[current], va, write)
    /\ last' = [NoTrap EXCEPT !.trap = "access", !.pid = current]
    /\ UNCHANGED <<pageinfo, pagetable, zeroed, processes, current, ticks>>

\* the heap test with <= for < at the break
InHeapWindow_inclusive(p, addr) ==
    addr >= p.original_break /\ addr <= p.program_break

\* the handler's test for a heap access
InHeapWindow(p, addr) == addr >= p.original_break /\ addr < p.program_break

\* the heap window [original_break, program_break) of the design
HeapWindow(p) == {a \in Word : p.original_break <= a /\ a < p.program_break}

\* the heap branch without the memset
pagefault_heap_no_memset(K, pid, page_addr, f, tf) ==
    IF f = 0 THEN [state |-> P_BROKEN, pi |-> K.pi, pt |-> K.pt, z |-> K.z]
    ELSE LET K0 == [pi |-> palloc(K.pi, pid, f), pt |-> K.pt, z |-> stale(K.z, f)]
             m == virtual_memory_map(K0, pid, page_addr, PAGEADDRESS(f),
                                     {PTE_P, PTE_W, PTE_U}, tf)
         IN  IF m.r < 0
             THEN [state |-> P_BROKEN, pi |-> freepage(m.pi, PAGEADDRESS(f)),
                   pt |-> m.pt, z |-> stale(m.z, f)]
             ELSE [state |-> P_RUNNABLE, pi |-> m.pi, pt |-> m.pt, z |-> m.z]

\* the heap branch mapping the page without PTE_W
pagefault_heap_readonly(K, pid, page_addr, f, tf) ==
    IF f = 0 THEN [state |-> P_BROKEN, pi |-> K.pi, pt |-> K.pt, z |-> K.z]
    ELSE LET K0 == [pi |-> palloc(K.pi, pid, f), pt |-> K.pt, z |-> stale(K.z, f)]
             K1 == [K0 EXCEPT !.z[f] = TRUE]
             m == virtual_memory_map(K1, pid, page_addr, PAGEADDRESS(f),
                                     {PTE_P, PTE_U}, tf)
         IN  IF m.r < 0
             THEN [state |-> P_BROKEN, pi |-> freepage(m.pi, PAGEADDRESS(f)),
                   pt |-> m.pt, z |-> stale(m.z, f)]
             ELSE [state |-> P_RUNNABLE, pi |-> m.pi, pt |-> m.pt, z |-> m.z]

\* the heap branch with the out-of-memory exit leaving the state as it was
pagefault_heap_oom_resumes(K, pid, page_addr, f, tf) ==
    IF f = 0 THEN [state |-> P_RUNNABLE, pi |-> K.pi, pt |-> K.pt, z |-> K.z]
    ELSE LET K0 == [pi |-> palloc(K.pi, pid, f), pt |-> K.pt, z |-> stale(K.z, f)]
             K1 == [K0 EXCEPT !.z[f] = TRUE]
             m == virtual_memory_map(K1, pid, page_addr, PAGEADDRESS(f),
                                     {PTE_P, PTE_W, PTE_U}, tf)
         IN  IF m.r < 0
             THEN [state |-> P_BROKEN, pi |-> freepage(m.pi, PAGEADDRESS(f)),
                   pt |-> m.pt, z |-> stale(m.z, f)]
             ELSE [state |-> P_RUNNABLE, pi |-> m.pi, pt |-> m.pt, z |-> m.z]

\* the heap branch of the handler once palloc returned frame f and, should the
\* mapping need a leaf table, tf for it: [state, pi, pt, z]
pagefault_heap(K, pid, page_addr, f, tf) ==
    IF f = 0 THEN [state |-> P_BROKEN, pi |-> K.pi, pt |-> K.pt, z |-> K.z]
    ELSE LET K0 == [pi |-> palloc(K.pi, pid, f), pt |-> K.pt, z |-> stale(K.z, f)]
             K1 == [K0 EXCEPT !.z[f] = TRUE]
             m == virtual_memory_map(K1, pid, page_addr, PAGEADDRESS(f),
                                     {PTE_P, PTE_W, PTE_U}, tf)
         IN  IF m.r < 0
             THEN [state |-> P_BROKEN, pi |-> freepage(m.pi, PAGEADDRESS(f)),
                   pt |-> m.pt, z |-> stale(m.z, f)]
             ELSE [state |-> P_RUNNABLE, pi |-> m.pi, pt |-> m.pt, z |-> m.z]

\* what a fault is, told from the address and the state before
FaultKind(p, pt, addr) ==
    IF addr \notin HeapWindow(p) THEN "other"
    ELSE IF PTE_P \in pt.leaf[PAGENUMBER(addr)].perm THEN "heap_present"
    ELSE "heap_absent"

\* exception(): INT_PAGEFAULT with PFERR_USER set, raised by a user access the
\* MMU refuses
PageFault(addr, write) ==
    /\ UserMode
    /\ ~MMUAllows(pagetable[current], addr, write)
    /\ LET p == processes[current]
           K == [pi |-> pageinfo, pt |-> pagetable, z |-> zeroed]
           page_addr == ROUNDDOWN(addr, PAGESIZE)
           mapping == virtual_memory_lookup(pagetable[current], page_addr)
       IN  /\ IF InHeapWindow(p, addr)
              THEN IF PTE_P \in mapping.perm
                   THEN /\ processes' = [processes EXCEPT ![current].p_state = P_RUNNABLE]
                        /\ UNCHANGED <<pageinfo, pagetable, zeroed>>
                   ELSE \E f \in PallocChoices(pageinfo) :
                        \E tf \in (IF f # 0 /\ NeedsTable(pagetable[current], page_addr)
                                   THEN PallocChoices(palloc(pageinfo, current, f))
                                   ELSE {0}) :
                          LET h == pagefault_heap(K, current, page_addr, f, tf) IN
                          /\ processes' = [processes EXCEPT ![current].p_state = h.state]
                          /\ pageinfo' = h.pi
                          /\ pagetable' = h.pt
                          /\ zeroed' = contents(h.z, h.pi)
              ELSE /\ processes' = [processes EXCEPT ![current].p_state = P_BROKEN]
                   /\ UNCHANGED <<pageinfo, pagetable, zeroed>>
           /\ last' = [NoTrap EXCEPT
                         !.trap = "pagefault", !.pid = current,
                         !.kind = FaultKind(p, pagetable[current], addr),
                         !.addr = IF addr \in HeapWindow(p) THEN addr ELSE NOADDR,
                         !.present = (virtual_memory_lookup(pagetable[current], addr).pn # -1),
                         !.freed = Released(pageinfo, pageinfo')]
           /\ current' = resume(processes', current)
    /\ UNCHANGED ticks

(***************************************************************************)
(* exit                                                                    *)
(***************************************************************************)
\* the frames process_free releases: the frames behind the leaves the process
\* owns, its leaf tables and its root
RECURSIVE free_leaves(_, _, _, _)
free_leaves(pi, pt, pid, vp) ==
    IF vp \notin VPages THEN pi
    ELSE LET m == virtual_memory_lookup(pt, PAGEADDRESS(vp)) IN
         free_leaves(IF m.pn # -1 /\ pi[m.pn].owner = pid
                     THEN freepage(pi, PAGEADDRESS(m.pn)) ELSE pi,
                     pt, pid, vp + 1)

RECURSIVE free_tables(_, _, _)
free_tables(pi, pt, t) ==
    IF t >= NTABS THEN pi
    ELSE free_tables(IF pt.tab[t] # 0 THEN freepage(pi, PAGEADDRESS(pt.tab[t]))
                     ELSE pi, pt, t + 1)

\* process_free(pid): [pi, pt]
process_free(pi, pts, pid) ==
    LET pt == pts[pid]
        pi1 == free_leaves(pi, pt, pid, 0)
        pi2 == free_tables(pi1, pt, 0)
    IN  [pi |-> freepage(pi2, PAGEADDRESS(pt.root)),
         pt |-> [pts EXCEPT ![pid] = NoTable]]

\* exception(): INT_SYS_EXIT
SysExit ==
    /\ UserMode
    /\ LET f == process_free(pageinfo, pagetable, current) IN
       /\ pageinfo' = f.pi
       /\ pagetable' = f.pt
       /\ zeroed' = contents(zeroed, f.pi)
    /\ processes' = [processes EXCEPT ![current].p_state = P_FREE]
    /\ current' = reschedule(processes', current)
    /\ last' = [NoTrap EXCEPT !.trap = "exit", !.pid = current,
                              !.freed = Released(pageinfo, pageinfo')]
    /\ UNCHANGED ticks

Step ==
    \/ Timer
    \/ SysYield
    \/ SysGetpid
    \/ SysExit
    \/ \E a \in Word : SysBrk(a)
    \/ \E d \in Word : SysSbrk(d)
    \/ \E va \in UserAddrs, w \in BOOLEAN : UserAccess(va, w)
    \/ \E va \in UserAddrs, w \in BOOLEAN : PageFault(va, w)

Next == Step /\ UNCHANGED law /\ UNCHANGED uvars

Spec == Init /\ [][Next]_vars

(***************************************************************************)
(* The sbrk(+n) ... sbrk(-n) scenario: `law` follows one process from a     *)
(* growing sbrk through the faults that fill the grown region to the        *)
(* sbrk that takes the same amount back, keeping what the frame table and   *)
(* the page table were before the first call.                               *)
(***************************************************************************)
LawUpdate ==
    LET pid == last'.pid IN
    IF last'.trap = "sbrk" /\ last'.kind = "grow" /\ last'.rax # NEG1
    THEN [phase |-> "grown", pid |-> pid,
          b |-> processes[pid].program_break,
          n |-> last'.addr - processes[pid].program_break,
          leaf |-> pagetable[pid].leaf, pi |-> pageinfo, touched |-> FALSE]
    ELSE IF law.phase = "grown" /\ law.pid = pid
    THEN IF last'.trap = "access" THEN law
         ELSE IF /\ last'.trap = "pagefault"
                 /\ last'.kind = "heap_absent"
                 /\ last'.addr >= law.b
                 /\ last'.addr < law.b + law.n
                 /\ processes'[pid].p_state = P_RUNNABLE
         THEN [law EXCEPT !.touched = TRUE]
         ELSE IF /\ last'.trap = "sbrk"
                 /\ last'.kind = "shrink"
                 /\ last'.rax # NEG1
                 /\ processes[pid].program_break = law.b + law.n
                 /\ last'.addr = law.b
         THEN [law EXCEPT !.phase = "back"]
         ELSE NoLaw
    ELSE NoLaw

NextLaw == Step /\ law' = LawUpdate /\ UNCHANGED uvars

SpecLaw == Init /\ [][NextLaw]_vars

(***************************************************************************)
(* Claims                                                                  *)
(***************************************************************************)
\* the leaf entry of a page in a process's table
Leaf(pts, pid, vp) == pts[pid].leaf[vp]

Mapped(pts, pid, vp) == PTE_P \in Leaf(pts, pid, vp).perm

\* the heap pages of the layout: above the code, below the stack
HeapVPages == {vp \in VPages : CODE_VP < vp /\ vp < STACK_VP}

BreakCall == {"brk", "sbrk"}

\* C1: in every reachable state a frame has refcount 0 if and only if its
\* owner is free
C1_RefcountZeroIffFree ==
    \A f \in Frames : pageinfo[f].refcount = 0 <=> pageinfo[f].owner = PO_FREE

\* a shrink has just released a heap frame, next to frames still in use
C1_Witness ==
    /\ last.trap \in BreakCall
    /\ last.kind = "shrink"
    /\ last.freed >= 1
    /\ \E f \in Frames : pageinfo[f].refcount = 0 /\ pageinfo[f].owner = PO_FREE
    /\ \E f \in Frames : pageinfo[f].owner = last.pid /\ pageinfo[f].refcount = 1

\* C2: a brk or sbrk whose resulting break is below original_break, or at or
\* above the top of the address space minus one page, returns -1 and changes
\* neither the break, nor any page table, nor any frame's owner or refcount
C2_OutOfBoundsNoEffect ==
    [][(last'.trap \in BreakCall /\ last'.kind = "oob")
        => /\ last'.rax = NEG1
           /\ processes' = processes
           /\ pagetable' = pagetable
           /\ pageinfo' = pageinfo]_vars

\* brk was refused for a process that has a grown heap with a page in it
C2_Witness ==
    /\ last.trap = "brk"
    /\ last.kind = "oob"
    /\ last.rax = NEG1
    /\ processes[last.pid].program_break > processes[last.pid].original_break
    /\ \E vp \in HeapVPages : Mapped(pagetable, last.pid, vp)

\* C3: for every process, original_break <= program_break <
\* MEMSIZE_VIRTUAL - PAGESIZE, whatever brk and sbrk were called with,
\* deltas whose sum wraps included
C3_BreakInBounds ==
    \A pid \in Pids :
        /\ processes[pid].original_break <= processes[pid].program_break
        /\ processes[pid].program_break < MEMSIZE_VIRTUAL - PAGESIZE

\* an sbrk whose sum wrapped was refused with the heap grown
C3_Witness ==
    /\ last.trap = "sbrk"
    /\ last.wrap
    /\ last.rax = NEG1
    /\ processes[last.pid].program_break > processes[last.pid].original_break

\* C4: a successful growing sbrk returns the old break, a successful growing
\* brk returns 0, the break becomes the requested address, and the frame
\* table and the page tables are unchanged
C4_GrowMovesOnlyBreak ==
    [][(last'.trap \in BreakCall /\ last'.kind = "grow")
        => /\ last'.rax = (IF last'.trap = "sbrk"
                           THEN processes[last'.pid].program_break ELSE 0)
           /\ processes' = [processes EXCEPT ![last'.pid].program_break = last'.addr]
           /\ pageinfo' = pageinfo
           /\ pagetable' = pagetable]_vars

\* sbrk has grown a heap to a break that is not page-aligned
C4_Witness ==
    /\ last.trap = "sbrk"
    /\ last.kind = "grow"
    /\ last.rax = INITIAL_BREAK
    /\ processes[last.pid].program_break = last.addr
    /\ last.addr % PAGESIZE # 0
    /\ \A vp \in HeapVPages : ~Mapped(pagetable, last.pid, vp)

\* the pages a shrink from old to new is to unmap: those that start at or
\* above new rounded up and below old rounded up
ShrinkRange(old, new) ==
    {vp \in VPages : /\ PAGEADDRESS(vp) >= ROUNDUP(new, PAGESIZE)
                     /\ PAGEADDRESS(vp) < ROUNDUP(old, PAGESIZE)}

\* C5: a successful shrinking brk or sbrk from old to new leaves no page of
\* [ROUNDUP(new), ROUNDUP(old)) mapped in the caller's table, decrements the
\* refcount of each frame that backed one (free at 0), and changes no other
\* mapping and no other frame
C5_ShrinkUnmapsExactly ==
    [][(last'.trap \in BreakCall /\ last'.kind = "shrink" /\ last'.rax # NEG1)
        => LET pid == last'.pid
               old == processes[pid].program_break
               new == last'.addr
               gone == ShrinkRange(old, new)
               backing == {Leaf(pagetable, pid, vp).pn :
                             vp \in {v \in gone : Mapped(pagetable, pid, v)}}
           IN  /\ processes'[pid].program_break = new
               /\ \A vp \in gone : Leaf(pagetable', pid, vp) = NoEntry
               /\ \A vp \in VPages \ gone :
                      Leaf(pagetable', pid, vp) = Leaf(pagetable, pid, vp)
               /\ \A q \in Pids \ {pid} : pagetable'[q] = pagetable[q]
               /\ \A f \in Frames :
                      IF f \in backing
                      THEN /\ pageinfo'[f].refcount = pageinfo[f].refcount - 1
                           /\ pageinfo'[f].owner =
                                 (IF pageinfo'[f].refcount = 0 THEN PO_FREE
                                  ELSE pageinfo[f].owner)
                      ELSE pageinfo'[f] = pageinfo[f]]_vars

\* brk has shrunk a heap, releasing a frame and keeping a lower heap page
C5_Witness ==
    /\ last.trap = "brk"
    /\ last.kind = "shrink"
    /\ last.rax = 0
    /\ last.freed >= 1
    /\ \E vp \in HeapVPages : Mapped(pagetable, last.pid, vp)

\* the page the break b lies in when b is not page-aligned
Straddle(b) == IF b % PAGESIZE = 0 THEN {} ELSE {PAGENUMBER(b)}

\* C6: after sbrk(+n), faults that fill pages of the grown region and
\* sbrk(-n), the break is b again and the frames behind the heap and their
\* refcounts are what they were before the first call; page rounding: the
\* page b lies in, if it was filled meanwhile, stays with its one frame
C6_GrowShrinkRestores ==
    law.phase = "back" =>
        LET pid == law.pid
            kept == {vp \in Straddle(law.b) :
                        /\ law.leaf[vp] = NoEntry
                        /\ Mapped(pagetable, pid, vp)}
        IN  /\ processes[pid].program_break = law.b
            /\ \A vp \in VPages \ kept : Leaf(pagetable, pid, vp) = law.leaf[vp]
            /\ \A vp \in kept :
                   /\ law.pi[Leaf(pagetable, pid, vp).pn] = FrameInfo(PO_FREE, 0)
                   /\ pageinfo[Leaf(pagetable, pid, vp).pn] = FrameInfo(pid, 1)
            /\ \A f \in Frames \ {Leaf(pagetable, pid, vp).pn : vp \in kept} :
                   pageinfo[f] = law.pi[f]

\* the scenario has run to its end with a whole page filled in between
C6_Witness ==
    /\ law.phase = "back"
    /\ law.touched
    /\ law.n >= PAGESIZE
    /\ last.freed >= 1

\* C7: a user fault on an absent page of [original_break, program_break),
\* with a free frame at hand, takes exactly one frame from the free pool for
\* the faulting pid with refcount 1, zero-filled, maps it at the page of the
\* address present|writable|user, and resumes the process, still runnable; on
\* a page already mapped the handler allocates nothing and resumes
C7_HeapFaultMapsZeroPage ==
    [][(last'.trap = "pagefault" /\ last'.kind # "other")
        => LET pid == last'.pid
               vp == PAGENUMBER(last'.addr)
           IN  IF last'.kind = "heap_absent"
               THEN FreeFrames(pageinfo) # {} =>
                      \E f \in FreeFrames(pageinfo) :
                        /\ pageinfo' = [pageinfo EXCEPT ![f] = FrameInfo(pid, 1)]
                        /\ zeroed'[f]
                        /\ pagetable' = [pagetable EXCEPT ![pid].leaf[vp] =
                                           [pn |-> f, perm |-> {PTE_P, PTE_W, PTE_U}]]
                        /\ processes' = processes
                        /\ processes'[pid].p_state = P_RUNNABLE
                        /\ current' = pid
               ELSE /\ pageinfo' = pageinfo
                    /\ pagetable' = pagetable
                    /\ processes'[pid].p_state = P_RUNNABLE
                    /\ current' = pid]_vars

\* a heap fault was resolved while another process was runnable too
C7_Witness ==
    /\ last.trap = "pagefault"
    /\ last.kind = "heap_absent"
    /\ current = last.pid
    /\ Mapped(pagetable, last.pid, PAGENUMBER(last.addr))
    /\ zeroed[Leaf(pagetable, last.pid, PAGENUMBER(last.addr)).pn]
    /\ \E q \in Pids \ {last.pid} : processes[q].p_state = P_RUNNABLE

\* C8: a user fault outside the heap window, or on a present page, marks the
\* process broken, does not resume it and allocates no frame
C8_OtherFaultBreaks ==
    [][(last'.trap = "pagefault" /\ last'.kind # "heap_absent")
        => /\ processes' = [processes EXCEPT ![last'.pid].p_state = P_BROKEN]
           /\ pageinfo' = pageinfo
           /\ pagetable' = pagetable
           /\ (current' = last'.pid
                 => \A q \in Pids : processes'[q].p_state # P_RUNNABLE)]_vars

\* a protection violation on a present page broke a process with a heap
C8_Witness ==
    /\ last.trap = "pagefault"
    /\ last.kind = "other"
    /\ last.present
    /\ processes[last.pid].p_state = P_BROKEN
    /\ processes[last.pid].program_break > processes[last.pid].original_break
    /\ current # last.pid

\* the addresses of a page
PageAddrs(vp) == {a \in Word : PAGENUMBER(a) = vp}

\* a heap fault of this step was resolved by mapping a page
Resolved ==
    /\ last'.trap = "pagefault"
    /\ last'.kind = "heap_absent"
    /\ processes'[last'.pid].p_state = P_RUNNABLE

\* C9: a fault on a page of the grown heap is taken only while the page is
\* absent; once the handler has resolved it every access of the process to
\* that page, read or write, goes through without a fault, and the page
\* stays mapped present|writable|user as long as it lies below the rounded-up
\* break of the live process, so each page faults once until a shrink unmaps
\* it
C9_OneFaultPerPage ==
    [][/\ (last'.trap = "pagefault" /\ last'.kind # "other")
            => ~Mapped(pagetable, last'.pid, PAGENUMBER(last'.addr))
       /\ Resolved
            => \A a \in PageAddrs(PAGENUMBER(last'.addr)), w \in BOOLEAN :
                   MMUAllows(pagetable'[last'.pid], a, w)
       /\ \A pid \in Pids, vp \in HeapVPages :
            (/\ Mapped(pagetable, pid, vp)
             /\ processes'[pid].p_state # P_FREE
             /\ PAGEADDRESS(vp) < ROUNDUP(processes'[pid].program_break, PAGESIZE))
            => /\ Leaf(pagetable', pid, vp) = Leaf(pagetable, pid, vp)
               /\ Leaf(pagetable', pid, vp).perm = {PTE_P, PTE_W, PTE_U}]_vars

\* a process with every page of its heap filled has made an access that
\* did not trap, with no frame left to take
C9_Witness ==
    /\ last.trap = "access"
    /\ processes[last.pid].program_break > processes[last.pid].original_break
    /\ \A vp \in HeapVPages :
          PAGEADDRESS(vp) < processes[last.pid].program_break
            => Mapped(pagetable, last.pid, vp)
    /\ FreeFrames(pageinfo) = {}

\* the slot a scan from pid + 1, pid + 2, ... modulo NPROC stops at, pid
\* itself last; -1 when no slot is runnable
FirstRunnableAfter(procs, pid) ==
    LET hits == {i \in 1 .. NPROC : procs[(pid + i) % NPROC].p_state = P_RUNNABLE}
    IN  IF hits = {} THEN -1
        ELSE (pid + (CHOOSE i \in hits : \A j \in hits : i <= j)) % NPROC

\* this step ends in schedule(): a timer tick, a yield, an exit, or a trap
\* that left the process not runnable
ReschedulePoint ==
    \/ last'.trap \in {"timer", "yield", "exit"}
    \/ processes'[last'.pid].p_state # P_RUNNABLE

C11_OnlyRunnableDispatched ==
    [][/\ processes'[current'].p_state = P_RUNNABLE
            \/ \A q \in Pids : processes'[q].p_state # P_RUNNABLE
       /\ \A q \in Pids :
            /\ processes[q].p_state = P_BROKEN => processes'[q].p_state = P_BROKEN
            /\ processes[q].p_state = P_FREE
                  => \/ processes'[q].p_state = P_FREE
                     \/ last'.trap = "fork" /\ last'.rax = q
            /\ processes[q].p_state # P_RUNNABLE => current' # q \/ current' = current
       /\ processes'[0].p_state = P_FREE
       /\ current' # 0]_vars

\* a process broke on a fault and the other one was dispatched in its place
C11_Witness ==
    /\ last.trap = "pagefault"
    /\ processes[last.pid].p_state = P_BROKEN
    /\ current # last.pid
    /\ processes[current].p_state = P_RUNNABLE

(***************************************************************************)
(* The page-frame table on its own: from the table pageinfo_init() leaves, *)
(* any sequence of assign_physical_page, palloc and freepage calls with    *)
(* any argument.  At most MaxHeld frames are held by processes at a time.  *)
(***************************************************************************)
MaxHeld == 2

Held(pi) == {f \in Frames : pi[f].owner > 0}

\* the addresses the calls are tried with: every unit of physical memory and
\* the first one past it
PhysAddrs == 0 .. MEMSIZE_PHYSICAL

InitFrames ==
    /\ pageinfo = pageinfo_init
    /\ pagetable = [p \in Pids |-> NoTable]
    /\ zeroed = [f \in Frames |-> FALSE]
    /\ processes = [p \in Pids |-> FreeProc]
    /\ current = 0
    /\ ticks = 0
    /\ last = NoTrap
    /\ law = NoLaw
    /\ heap = HeapInit
    /\ ulast = NoCall

FtAssign(addr, owner) ==
    /\ Cardinality(Held(pageinfo)) < MaxHeld
    /\ pageinfo' = assign_physical_page(pageinfo, addr, owner).pi
    /\ last' = [NoTrap EXCEPT !.trap = "assign", !.pid = owner,
                              !.rax = assign_physical_page(pageinfo, addr, owner).r % WORD]
    /\ UNCHANGED <<pagetable, zeroed, processes, current, ticks, law>>

FtPalloc(owner) ==
    /\ Cardinality(Held(pageinfo)) < MaxHeld
    /\ \E f \in FreeFrames(pageinfo) : pageinfo' = palloc(pageinfo, owner, f)
    /\ last' = [NoTrap EXCEPT !.trap = "palloc", !.pid = owner]
    /\ UNCHANGED <<pagetable, zeroed, processes, current, ticks, law>>

FtRelease(addr) ==
    /\ pageinfo' = freepage(pageinfo, addr)
    /\ last' = [NoTrap EXCEPT !.trap = "freepage",
                              !.freed = Released(pageinfo, pageinfo')]
    /\ UNCHANGED <<pagetable, zeroed, processes, current, ticks, law>>

StepFrames ==
    \/ \E addr \in PhysAddrs, owner \in Pids \ {0} : FtAssign(addr, owner)
    \/ \E owner \in Pids \ {0} : FtPalloc(owner)
    \/ \E addr \in PhysAddrs : FtRelease(addr)

NextFrames == StepFrames /\ UNCHANGED uvars

SpecFrames == InitFrames /\ [][NextFrames]_vars

\* C14: a frame initialised as reserved keeps owner reserved and refcount 1,
\* and a frame initialised as kernel is never given another owner
C14_ReservedAndKernelFixed ==
    \A f \in Frames :
        /\ pageinfo_init[f].owner = PO_RESERVED
              => pageinfo[f] = FrameInfo(PO_RESERVED, 1)
        /\ pageinfo_init[f].owner = PO_KERNEL
              => pageinfo[f].owner \in {PO_KERNEL, PO_FREE}

\* the frames that hold page tables: the roots and the leaf tables
TableFrames ==
    {pagetable[q].root : q \in Pids} \cup
    {pagetable[q].tab[t] : q \in Pids, t \in 0 .. (NTABS - 1)}

\* the leaf entries, of any process, that point at frame f
LeafRefs(f) ==
    {e \in Pids \X VPages : Mapped(pagetable, e[1], e[2])
                            /\ Leaf(pagetable, e[1], e[2]).pn = f}

\* C15: between traps, every process-owned frame that is not a page-table
\* page has a refcount equal to the number of leaf entries, over all
\* processes, that point at it, and no leaf entry points at a frame with
\* refcount 0
C15_RefcountCountsLeaves ==
    /\ \A f \in Frames \ TableFrames :
          pageinfo[f].owner > 0
            => pageinfo[f].refcount = Cardinality(LeafRefs(f))
    /\ \A f \in Frames : LeafRefs(f) # {} => pageinfo[f].refcount > 0

\* a process holds two heap frames, each behind one leaf, the second just
\* mapped by the fault handler
C15_Witness ==
    /\ last.trap = "pagefault"
    /\ last.kind = "heap_absent"
    /\ \A vp \in HeapVPages :
          /\ Mapped(pagetable, last.pid, vp)
          /\ pageinfo[Leaf(pagetable, last.pid, vp).pn] = FrameInfo(last.pid, 1)

(***************************************************************************)
(* fork, page_alloc and mapping.  These traps are run in specifications of *)
(* their own, which boot the default command (one process): SpecFork lets  *)
(* fork create the second process, SpecSys runs page_alloc and mapping     *)
(* next to sbrk and the fault handler.                                     *)
(***************************************************************************)
\* the frame palloc returns inside process_fork: the lowest free one, 0 (NULL)
\* when there is none
ForkFrame(pi) ==
    IF FreeFrames(pi) = {} THEN 0
    ELSE CHOOSE f \in FreeFrames(pi) : \A g \in FreeFrames(pi) : f <= g

\* the slot process_fork takes: the lowest free one, never slot 0; -1: none
fork_slot(procs) ==
    LET free == {q \in Pids \ {0} : procs[q].p_state = P_FREE} IN
    IF free = {} THEN -1 ELSE CHOOSE q \in free : \A r \in free : q <= r

\* the pages fork copies: the user-accessible leaves above the kernel's
\* mappings (the console stays shared)
ForkPages(pt) ==
    {vp \in VPages \ KernelVPages :
        PTE_P \in pt.leaf[vp].perm /\ PTE_U \in pt.leaf[vp].perm}

\* the frames a fork of this page table takes: a root, a leaf table for each
\* group of pages with a mapping to install, and a frame per copied page
ForkNeed(pt) ==
    1 + Cardinality({TableOf(vp) : vp \in KernelVPages \cup ForkPages(pt)})
      + Cardinality(ForkPages(pt))

\* the child's kernel mappings and copies, page by page; every palloc
\* succeeds here, process_fork having the frames it needs
RECURSIVE fork_pages(_, _, _, _)
fork_pages(K, parent, child, vp) ==
    IF vp \notin VPages THEN K
    ELSE IF vp \in KernelVPages
    THEN LET e == kernel_pagetable_entry(vp)
             m == virtual_memory_map(K, child, PAGEADDRESS(vp), PAGEADDRESS(e.pn),
                                     e.perm, ForkFrame(K.pi))
         IN  fork_pages([pi |-> m.pi, pt |-> m.pt, z |-> m.z], parent, child, vp + 1)
    ELSE IF vp \in ForkPages(K.pt[parent])
    THEN LET src == K.pt[parent].leaf[vp]
             f == ForkFrame(K.pi)
             K1 == [pi |-> palloc(K.pi, child, f), pt |-> K.pt,
                    z |-> [K.z EXCEPT ![f] = K.z[src.pn]]]
             m == virtual_memory_map(K1, child, PAGEADDRESS(vp), PAGEADDRESS(f),
                                     src.perm, ForkFrame(K1.pi))
         IN  fork_pages([pi |-> m.pi, pt |-> m.pt, z |-> m.z], parent, child, vp + 1)
    ELSE fork_pages(K, parent, child, vp + 1)

\* process_fork(parent): [r, pi, pt, z]; r is the child's pid, or -1 with
\* every frame taken for the child released again
process_fork(K, procs, parent) ==
    LET child == fork_slot(procs)
        root == ForkFrame(K.pi)
        K1 == [pi |-> palloc(K.pi, child, root),
               pt |-> [K.pt EXCEPT ![child] = [NoTable EXCEPT !.root = root]],
               z |-> [K.z EXCEPT ![root] = TRUE]]
        K2 == fork_pages(K1, parent, child, 0)
    IN  IF child = -1 \/ Cardinality(FreeFrames(K.pi)) < ForkNeed(K.pt[parent])
        THEN [r |-> -1, pi |-> K.pi, pt |-> K.pt, z |-> K.z]
        ELSE [r |-> child, pi |-> K2.pi, pt |-> K2.pt, z |-> K2.z]

\* exception(): INT_SYS_FORK
SysFork ==
    /\ UserMode
    /\ LET K == [pi |-> pageinfo, pt |-> pagetable, z |-> zeroed]
           f == process_fork(K, processes, current)
       IN  /\ pageinfo' = f.pi
           /\ pagetable' = f.pt
           /\ zeroed' = contents(f.z, f.pi)
           /\ processes' = IF f.r = -1 THEN processes
                           ELSE [processes EXCEPT ![f.r] = processes[current]]
           /\ last' = [NoTrap EXCEPT !.trap = "fork", !.pid = current,
                                     !.rax = IF f.r = -1 THEN NEG1 ELSE f.r]
           /\ current' = resume(processes', current)
    /\ UNCHANGED ticks

\* process_page_alloc(p, addr) once palloc returned frame f (tf: the frame
\* for a missing leaf table): [r, pi, pt, z]
process_page_alloc(K, pid, addr, f, tf) ==
    IF f = 0 THEN [r |-> -1, pi |-> K.pi, pt |-> K.pt, z |-> K.z]
    ELSE LET K0 == [pi |-> palloc(K.pi, pid, f), pt |-> K.pt, z |-> stale(K.z, f)]
             m == virtual_memory_map(K0, pid, addr, PAGEADDRESS(f),
                                     {PTE_P, PTE_W, PTE_U}, tf)
         IN  IF m.r < 0
             THEN [r |-> -1, pi |-> freepage(m.pi, PAGEADDRESS(f)),
                   pt |-> m.pt, z |-> stale(m.z, f)]
             ELSE [r |-> 0, pi |-> m.pi, pt |-> m.pt, z |-> m.z]

\* the addresses page_alloc is called with: the heap pages, and an address
\* that is not page-aligned
PageAllocAddrs ==
    {PAGEADDRESS(vp) : vp \in (CODE_VP + 1) .. (STACK_VP - 1)} \cup {INITIAL_BREAK + 1}

\* what reg_rax may hold when the trap is taken
RaxIn == {0, 1, NEG1}

\* exception(): INT_SYS_PAGE_ALLOC.  The handler calls syscall_page_alloc and
\* drops its result: reg_rax keeps what it held on entry.  The call is made
\* for pages that are not mapped yet (what process_page_alloc does to an
\* existing mapping is not specified).
SysPageAlloc(addr, rax_in) ==
    /\ UserMode
    /\ virtual_memory_lookup(pagetable[current], addr).pn = -1
    /\ LET K == [pi |-> pageinfo, pt |-> pagetable, z |-> zeroed] IN
       \E f \in PallocChoices(pageinfo) :
       \E tf \in (IF f # 0 /\ NeedsTable(pagetable[current], addr)
                  THEN PallocChoices(palloc(pageinfo, current, f)) ELSE {0}) :
          LET a == process_page_alloc(K, current, addr, f, tf) IN
          /\ pageinfo' = a.pi
          /\ pagetable' = a.pt
          /\ zeroed' = contents(a.z, a.pi)
          /\ last' = [NoTrap EXCEPT
                        !.trap = "page_alloc", !.pid = current,
                        !.rax = rax_in,
                        !.kind = IF a.r = 0 THEN "allocated" ELSE "failed",
                        !.addr = addr]
    /\ current' = resume(processes, current)
    /\ UNCHANGED <<processes, ticks>>

\* sizeof(vamapping), in units
VAMAPPING_SIZE == 2

\* the frames memcpy(map.pa, ..., sizeof(vamapping)) writes: physical memory
\* from pa on, whatever is mapped after the page of the buffer
memcpy_frames(pa) == {PAGENUMBER(pa + i) : i \in 0 .. (VAMAPPING_SIZE - 1)}

\* syscall_mapping(p): the frames written; mapping_ptr is a mapped address
\* when the sum is taken, so the sum does not wrap
syscall_mapping(pt, mapping_ptr, ptr) ==
    LET map == virtual_memory_lookup(pt, mapping_ptr)
        endaddr == mapping_ptr + VAMAPPING_SIZE - 1
        end_map == virtual_memory_lookup(pt, endaddr)
    IN  IF ~({PTE_W, PTE_U} \subseteq map.perm) THEN {}
        ELSE IF PAGENUMBER(endaddr) # PAGENUMBER(ptr)
                /\ ~({PTE_W, PTE_P} \subseteq end_map.perm) THEN {}
        ELSE memcpy_frames(map.pa)

\* exception(): INT_SYS_MAPPING
SysMapping(mapping_ptr, ptr) ==
    /\ UserMode
    /\ last' = [NoTrap EXCEPT
                  !.trap = "mapping", !.pid = current, !.addr = mapping_ptr,
                  !.wrote = syscall_mapping(pagetable[current], mapping_ptr, ptr)]
    /\ current' = resume(processes, current)
    /\ UNCHANGED <<pageinfo, pagetable, zeroed, processes, ticks>>

\* `law` in SpecFork: from a successful fork, through traps that leave the
\* frame table alone, to the exit of the child
ForkLawUpdate ==
    IF last'.trap = "fork" /\ last'.rax # NEG1
    THEN [phase |-> "forked", pid |-> last'.rax, parent |-> last'.pid,
          pi |-> pageinfo]
    ELSE IF law.phase = "forked"
    THEN IF last'.trap = "exit" /\ last'.pid = law.pid
         THEN [law EXCEPT !.phase = "exited"]
         ELSE IF pageinfo' = pageinfo /\ last'.trap # "exit" THEN law
         ELSE NoLaw
    ELSE NoLaw

InitSys ==
    LET K == Boot("default") IN
    /\ pageinfo = K.pi
    /\ pagetable = K.pt
    /\ zeroed = K.z
    /\ processes = [p \in Pids |->
                      IF p = 1 THEN [p_state |-> P_RUNNABLE,
                                     original_break |-> INITIAL_BREAK,
                                     program_break |-> INITIAL_BREAK]
                      ELSE FreeProc]
    /\ current = 1
    /\ ticks = 0
    /\ last = NoTrap
    /\ law = NoLaw
    /\ heap = HeapInit
    /\ ulast = NoCall

StepFork ==
    \/ Timer
    \/ SysExit
    \/ SysFork
    \/ \E d \in Word : SysSbrk(d)
    \/ \E va \in UserAddrs, w \in BOOLEAN : PageFault(va, w)

NextFork == StepFork /\ law' = ForkLawUpdate /\ UNCHANGED uvars

SpecFork == InitSys /\ [][NextFork]_vars

StepSys ==
    \/ \E d \in Word : SysSbrk(d)
    \/ \E va \in UserAddrs, w \in BOOLEAN : PageFault(va, w)
    \/ \E a \in PageAllocAddrs, r \in RaxIn : SysPageAlloc(a, r)
    \/ \E dst \in UserAddrs, va \in UserAddrs : SysMapping(dst, va)

NextSys == StepSys /\ UNCHANGED law /\ UNCHANGED uvars

SpecSys == InitSys /\ [][NextSys]_vars

(***************************************************************************)
(* Every trap of a user process in one system                              *)
(***************************************************************************)
\* exception(): INT_SYS_MEM_TOG.  syscall_mem_tog flips disp_global or the
\* caller's display_status, flags that only the memory viewer reads and that
\* are not part of the state kept here; the handler touches nothing else
SysMemTog(p) ==
    /\ UserMode
    /\ current' = resume(processes, current)
    /\ last' = [NoTrap EXCEPT !.trap = "mem_tog", !.pid = current,
                 !.kind = IF p = 0 THEN "global"
                          ELSE IF p = current THEN "self" ELSE "ignored"]
    /\ UNCHANGED <<pageinfo, pagetable, zeroed, processes, ticks>>

\* the reschedule points a runnable process has waited through since it was
\* last dispatched, counted up to NPROC
NoWait == [phase |-> "wait", n |-> [q \in Pids |-> 0]]

WaitUpdate ==
    LET w == IF law.phase = "wait" THEN law.n ELSE NoWait.n IN
    [phase |-> "wait",
     n |-> [q \in Pids |->
              IF current' = q \/ processes'[q].p_state # P_RUNNABLE
                 \/ processes[q].p_state # P_RUNNABLE
              THEN 0
              ELSE IF last'.trap \in {"timer", "yield"} /\ w[q] < NPROC
              THEN w[q] + 1
              ELSE w[q]]]

\* the arguments the traps are taken with here: a break one page up and one
\* out of bounds, an increment of one page up and of one page down, the first
\* heap page, the caller's stack page as buffer and its code page as subject,
\* and faults on the first heap page and on a kernel page
StepTrap ==
    \/ Timer
    \/ SysYield
    \/ SysGetpid
    \/ SysExit
    \/ SysFork
    \/ \E a \in {INITIAL_BREAK + PAGESIZE, 0} : SysBrk(a)
    \/ \E d \in {PAGESIZE, WORD - PAGESIZE} : SysSbrk(d)
    \/ SysPageAlloc(INITIAL_BREAK, 0)
    \/ SysMapping(PAGEADDRESS(STACK_VP), PAGEADDRESS(CODE_VP))
    \/ \E p \in Pids : SysMemTog(p)
    \/ \E va \in {INITIAL_BREAK, 0}, w \in BOOLEAN : PageFault(va, w)

NextTrap == StepTrap /\ law' = WaitUpdate /\ UNCHANGED uvars

SpecTrap == InitSys /\ [][NextTrap]_vars

\* a page the process itself may write: present, writable and user
UserWritable(pts, pid, vp) ==
    vp \in VPages /\ {PTE_P, PTE_W, PTE_U} \subseteq Leaf(pts, pid, vp).perm

\* C12: page_alloc(va) leaves its result in reg_rax: 0 when a frame was
\* allocated and mapped user-writable at va, -1 when it failed
C12_PageAllocReturnsResult ==
    [][last'.trap = "page_alloc"
        => LET pid == last'.pid
               done == /\ last'.addr % PAGESIZE = 0
                       /\ UserWritable(pagetable', pid, PAGENUMBER(last'.addr))
                       /\ pageinfo'[Leaf(pagetable', pid, PAGENUMBER(last'.addr)).pn]
                            = FrameInfo(pid, 1)
           IN  last'.rax = (IF done THEN 0 ELSE NEG1)]_vars

\* the pages the buffer [dst, dst + sizeof(vamapping)) spans
BufferPages(dst) == {PAGENUMBER(dst + i) : i \in 0 .. (VAMAPPING_SIZE - 1)}

\* C13: mapping(dst, va) writes nothing when a page of the buffer is not
\* present, writable and user in the caller's table, and never writes a frame
\* the caller could not write itself; it changes no kernel state
C13_MappingChecksBuffer ==
    [][last'.trap = "mapping"
        => LET pid == last'.pid IN
           /\ (\E vp \in BufferPages(last'.addr) : ~UserWritable(pagetable, pid, vp))
                 => last'.wrote = {}
           /\ last'.wrote \subseteq
                 {Leaf(pagetable, pid, vp).pn :
                    vp \in {v \in VPages : UserWritable(pagetable, pid, v)}}
           /\ UNCHANGED <<pageinfo, pagetable, processes>>]_vars

OFF_NEXT == 8
OFF_PREV == 16
OFF_FREED == 24

b_size(m, b) == m[b]
b_next(m, b) == m[b + OFF_NEXT]
b_prev(m, b) == m[b + OFF_PREV]
b_freed(m, b) == m[b + OFF_FREED]

(* The blocks reached from b by next pointers, in order.  The walk stops   *)
(* at a null pointer; a pointer out of the heap's memory, or more blocks   *)
(* than the memory can hold (a cycle), is a list the code's loops do not   *)
(* survive.                                                                *)
RECURSIVE list_from(_, _, _)
list_from(m, b, fuel) ==
    IF b = NULL \/ b \notin MemAddrs \/ b + OFF_FREED \notin MemAddrs \/ fuel = 0
    THEN <<>>
    ELSE <<b>> \o list_from(m, b_next(m, b), fuel - 1)

RECURSIVE list_end(_, _, _)
list_end(m, b, fuel) ==
    IF b = NULL THEN NULL
    ELSE IF b \notin MemAddrs \/ b + OFF_FREED \notin MemAddrs \/ fuel = 0 THEN -1
    ELSE list_end(m, b_next(m, b), fuel - 1)

Fuel == Cardinality(MemAddrs)
List(h) == list_from(h.mem, h.head, Fuel)
Walkable(h) == list_end(h.mem, h.head, Fuel) = NULL

\* the blocks reached from head
Blocks(h) == {List(h)[i] : i \in 1 .. Len(List(h))}

(* the user side of the sbrk system call: the old break, or -1 with the    *)
(* break unchanged when the kernel refuses the new one                      *)
sys_sbrk(brk, increment) ==
    LET newbreak == (brk + increment) % UWORD
    IN  IF newbreak < HEAP_BASE \/ newbreak >= HEAP_LIMIT
        THEN [ret |-> -1, brk |-> brk]
        ELSE [ret |-> brk, brk |-> newbreak]

(* (sz + 7) & ~7, and the size of the block with its header                 *)
align_size(sz) == (((sz + 7) % UWORD) \div ALIGN) * ALIGN
total_size(sz) == (align_size(sz) + HDR) % UWORD

UINT64_MAX == UWORD - 1
SPLIT_MIN == 8

wr(m, a, v) == [m EXCEPT ![a] = v]
InHeapMem(b) == b \in MemAddrs /\ b + OFF_FREED \in MemAddrs

(* The process after a fault on an address it may not touch, or in a loop  *)
(* over a list that never ends: it makes no further allocator call.        *)
Dead(h) == [h EXCEPT !.dead = TRUE]

\* a walk that takes the later of two equally good blocks
RECURSIVE best_fit_last_on_ties(_, _, _, _, _)
best_fit_last_on_ties(m, L, total, best, min_size_diff) ==
    IF L = <<>> THEN best
    ELSE LET c == Head(L)
             size_diff == b_size(m, c) - total
         IN  IF b_freed(m, c) = 1 /\ b_size(m, c) >= total /\ size_diff <= min_size_diff
             THEN best_fit_last_on_ties(m, Tail(L), total, c, size_diff)
             ELSE best_fit_last_on_ties(m, Tail(L), total, best, min_size_diff)

(* malloc's walk over the list: the freed block of size >= total with the  *)
(* smallest surplus, the first such one (the comparison is strict).         *)
RECURSIVE best_fit(_, _, _, _, _)
best_fit(m, L, total, best, min_size_diff) ==
    IF L = <<>> THEN best
    ELSE LET c == Head(L)
             size_diff == b_size(m, c) - total
         IN  IF b_freed(m, c) = 1 /\ b_size(m, c) >= total /\ size_diff < min_size_diff
             THEN best_fit(m, Tail(L), total, c, size_diff)
             ELSE best_fit(m, Tail(L), total, best, min_size_diff)

(* malloc from a freed block: split it when the rest holds a header and    *)
(* SPLIT_MIN bytes, mark it not freed, count it.  The stores are made in   *)
(* the code's order, each reading the memory the earlier ones left.        *)
malloc_reuse(h, bf, total) ==
    LET m == h.mem
        split == b_size(m, bf) >= (total + HDR + SPLIT_MIN) % UWORD
        nb == (bf + total) % UWORD
        s1 == wr(m, nb, (b_size(m, bf) - total) % UWORD)
        s2 == wr(s1, nb + OFF_FREED, 1)
        s3 == wr(s2, nb + OFF_NEXT, b_next(s2, bf))
        s4 == wr(s3, nb + OFF_PREV, bf)
        s5 == wr(s4, bf, total)
        s6 == wr(s5, bf + OFF_NEXT, nb)
        nn == b_next(s6, nb)
        s7 == IF nn # NULL THEN wr(s6, nn + OFF_PREV, nb) ELSE s6
        fault == split /\ (~InHeapMem(nb) \/ (nn # NULL /\ ~InHeapMem(nn)))
        m1 == IF split THEN s7 ELSE m
    IN  IF fault
        THEN [h |-> Dead(h), ret |-> NULL, sbrk |-> -1, beyond |-> FALSE]
        ELSE [h |-> [h EXCEPT !.mem = wr(m1, bf + OFF_FREED, 0),
                              !.total_allocations = @ + 1],
              ret |-> bf + HDR, sbrk |-> -1,
              beyond |-> split /\ nb + HDR > h.brk]

\* growth that counts the allocation before it knows that sbrk succeeded
malloc_grow_counts_first(h, total) ==
    LET r == sys_sbrk(h.brk, total)
        nb == r.ret
        s1 == wr(h.mem, nb, total)
        s2 == wr(s1, nb + OFF_FREED, 0)
        s3 == wr(s2, nb + OFF_NEXT, NULL)
        s4 == wr(s3, nb + OFF_PREV, NULL)
        L == list_from(s4, h.head, Fuel)
        tail == L[Len(L)]
        s5 == wr(wr(s4, tail + OFF_NEXT, nb), nb + OFF_PREV, tail)
    IN  IF r.ret = -1
        THEN [h |-> [h EXCEPT !.total_allocations = @ + 1],
              ret |-> NULL, sbrk |-> total, beyond |-> FALSE]
        ELSE [h |-> [mem |-> IF h.head = NULL THEN s4 ELSE s5,
                     head |-> IF h.head = NULL THEN nb ELSE h.head,
                     brk |-> r.brk,
                     total_allocations |-> h.total_allocations + 1,
                     dead |-> FALSE],
              ret |-> nb + HDR, sbrk |-> total,
              beyond |-> nb + HDR > r.brk]

(* malloc by growing the heap: sbrk(total), a new not-freed block at the   *)
(* old break, appended after the last block of the list.                    *)
malloc_grow(h, total) ==
    LET r == sys_sbrk(h.brk, total)
        nb == r.ret
        s1 == wr(h.mem, nb, total)
        s2 == wr(s1, nb + OFF_FREED, 0)
        s3 == wr(s2, nb + OFF_NEXT, NULL)
        s4 == wr(s3, nb + OFF_PREV, NULL)
        L == list_from(s4, h.head, Fuel)
        tail == L[Len(L)]
        s5 == wr(wr(s4, tail + OFF_NEXT, nb), nb + OFF_PREV, tail)
    IN  IF r.ret = -1
        THEN [h |-> h, ret |-> NULL, sbrk |-> total, beyond |-> FALSE]
        ELSE IF h.head # NULL /\ list_end(s4, h.head, Fuel) # NULL
        THEN [h |-> Dead(h), ret |-> NULL, sbrk |-> total, beyond |-> FALSE]
        ELSE [h |-> [mem |-> IF h.head = NULL THEN s4 ELSE s5,
                     head |-> IF h.head = NULL THEN nb ELSE h.head,
                     brk |-> r.brk,
                     total_allocations |-> h.total_allocations + 1,
                     dead |-> FALSE],
              ret |-> nb + HDR, sbrk |-> total,
              beyond |-> nb + HDR > r.brk]

malloc(h, sz) ==
    IF sz = 0 THEN [h |-> h, ret |-> NULL, sbrk |-> -1, beyond |-> FALSE]
    ELSE IF ~Walkable(h)
    THEN [h |-> Dead(h), ret |-> NULL, sbrk |-> -1, beyond |-> FALSE]
    ELSE LET total == total_size(sz)
             bf == best_fit(h.mem, List(h), total, NULL, UINT64_MAX)
         IN  IF bf # NULL THEN malloc_reuse(h, bf, total)
             ELSE malloc_grow(h, total)
(* free's path for a block that is on no list.  free_link inserts it by   *)
(* address: after the last block below it, before the first one not below  *)
(* it.                                                                      *)
free_link(m, L, block) ==
    LET n == Cardinality({i \in 1 .. Len(L) : \A j \in 1 .. i : L[j] < block})
        prev == IF n > 0 THEN L[n] ELSE NULL
        cur == IF n < Len(L) THEN L[n + 1] ELSE NULL
        s1 == IF prev # NULL
              THEN wr(wr(m, prev + OFF_NEXT, block), block + OFF_PREV, prev)
              ELSE wr(m, block + OFF_PREV, NULL)
    IN  [mem |-> IF cur # NULL
                 THEN wr(wr(s1, cur + OFF_PREV, block), block + OFF_NEXT, cur)
                 ELSE wr(s1, block + OFF_NEXT, NULL),
         head |-> IF prev # NULL THEN L[1] ELSE block]

(* b takes in its successor nx: the sizes add up and nx leaves the list *)
absorb_next(m, b, nx) ==
    LET s1 == wr(wr(m, b, (b_size(m, b) + b_size(m, nx)) % UWORD),
                 b + OFF_NEXT, b_next(m, nx))
    IN  IF b_next(s1, b) # NULL
        THEN wr(s1, b_next(s1, b) + OFF_PREV, b) ELSE s1

(* merge with a freed successor that starts where the block ends *)
coalesce_next(m, block) ==
    IF /\ b_next(m, block) # NULL
       /\ b_freed(m, b_next(m, block)) # 0
       /\ (block + b_size(m, block)) % UWORD = b_next(m, block)
    THEN absorb_next(m, block, b_next(m, block))
    ELSE m

(* the predecessor pv takes in the block *)
absorb_into_prev(m, pv, block) ==
    LET s1 == wr(wr(m, pv, (b_size(m, pv) + b_size(m, block)) % UWORD),
                 pv + OFF_NEXT, b_next(m, block))
    IN  IF b_next(s1, block) # NULL
        THEN wr(s1, b_next(s1, block) + OFF_PREV, b_prev(s1, block)) ELSE s1

(* merge with a freed predecessor that ends where the block starts *)
coalesce_prev(m, block) ==
    IF /\ b_prev(m, block) # NULL
       /\ b_freed(m, b_prev(m, block)) # 0
       /\ (b_prev(m, block) + b_size(m, b_prev(m, block))) % UWORD = block
    THEN absorb_into_prev(m, b_prev(m, block), block)
    ELSE m

free_insert(h, block) ==
    LET linked == free_link(h.mem, List(h), block)
    IN  [h EXCEPT !.mem = coalesce_prev(coalesce_next(linked.mem, block), block),
                  !.head = linked.head]

\* free that lowers the count and leaves the block marked live
free_unmarked(h, ptr) ==
    IF ptr = NULL THEN h
    ELSE [h EXCEPT !.total_allocations = @ - 1]

(* free(ptr): a null pointer does nothing.  Otherwise the live count goes  *)
(* down, the header before ptr is marked freed, and the function returns   *)
(* at once when the block has a successor or a predecessor or is the head  *)
(* of the list; only a block with neither is inserted and merged.          *)
free(h, ptr) ==
    IF ptr = NULL THEN h
    ELSE LET block == (ptr - HDR) % UWORD
             h0 == [h EXCEPT !.mem = wr(h.mem, block + OFF_FREED, 1),
                             !.total_allocations = @ - 1]
         IN  IF \/ b_next(h0.mem, block) # NULL
                \/ b_prev(h0.mem, block) # NULL
                \/ block = h.head
             THEN h0
             ELSE free_insert(h0, block)

\* a scan that moves on after a merge and does not ask for another pass
RECURSIVE defrag_pass_once(_, _, _, _)
defrag_pass_once(m, cur, did_merge, fuel) ==
    IF cur = NULL \/ b_next(m, cur) = NULL \/ fuel = 0
    THEN [m |-> m, did_merge |-> did_merge, done |-> fuel # 0]
    ELSE LET next == b_next(m, cur)
         IN  IF /\ b_freed(m, cur) # 0
                /\ b_freed(m, next) # 0
                /\ (cur + b_size(m, cur)) % UWORD = next
             THEN LET s1 == wr(m, cur, (b_size(m, cur) + b_size(m, next)) % UWORD)
                      s2 == wr(s1, cur + OFF_NEXT, b_next(s1, next))
                      s3 == IF b_next(s2, next) # NULL
                            THEN wr(s2, b_next(s2, next) + OFF_PREV, cur) ELSE s2
                  IN  defrag_pass_once(s3, b_next(s3, cur), did_merge, fuel - 1)
             ELSE defrag_pass_once(m, next, did_merge, fuel - 1)

(* One scan of defrag's inner loop from cur: a freed block whose freed     *)
(* successor starts where it ends takes the successor's size and place and *)
(* is looked at again; otherwise the scan moves to the successor.          *)
RECURSIVE defrag_pass(_, _, _, _)
defrag_pass(m, cur, did_merge, fuel) ==
    IF cur = NULL \/ b_next(m, cur) = NULL \/ fuel = 0
    THEN [m |-> m, did_merge |-> did_merge, done |-> fuel # 0]
    ELSE LET next == b_next(m, cur)
         IN  IF /\ b_freed(m, cur) # 0
                /\ b_freed(m, next) # 0
                /\ (cur + b_size(m, cur)) % UWORD = next
             THEN LET s1 == wr(m, cur, (b_size(m, cur) + b_size(m, next)) % UWORD)
                      s2 == wr(s1, cur + OFF_NEXT, b_next(s1, next))
                      s3 == IF b_next(s2, next) # NULL
                            THEN wr(s2, b_next(s2, next) + OFF_PREV, cur) ELSE s2
                  IN  defrag_pass(s3, cur, TRUE, fuel - 1)
             ELSE defrag_pass(m, next, did_merge, fuel - 1)

(* defrag's outer loop: scans from the head until one merges nothing.      *)
(* `done` tells that the loops ended within the steps allowed.             *)
MaxScan == 2 * Fuel + 1
RECURSIVE defrag_loop(_, _, _)
defrag_loop(m, head, passes) ==
    LET r == defrag_pass(m, head, FALSE, MaxScan)
    IN  IF ~r.done \/ passes = 0 THEN [m |-> r.m, done |-> FALSE]
        ELSE IF r.did_merge THEN defrag_loop(r.m, head, passes - 1)
        ELSE [m |-> r.m, done |-> TRUE]

defrag(h) ==
    IF h.head = NULL THEN [h |-> h, done |-> TRUE]
    ELSE IF ~Walkable(h) THEN [h |-> Dead(h), done |-> FALSE]
    ELSE LET r == defrag_loop(h.mem, h.head, Fuel + 1)
         IN  [h |-> IF r.done THEN [h EXCEPT !.mem = r.m] ELSE Dead(h),
              done |-> r.done]
(* memset(a, 0, n) and memcpy(dst, src, n) over the words of the heap.  A  *)
(* word holds one value (every value stored here fits its first byte), so  *)
(* a range that ends inside a word still rewrites that word.                *)
RECURSIVE memset_zero(_, _, _)
memset_zero(m, a, n) ==
    IF n <= 0 THEN m ELSE memset_zero(wr(m, a, 0), a + ALIGN, n - ALIGN)

RECURSIVE memcpy(_, _, _, _)
memcpy(m, dst, src, n) ==
    IF n <= 0 THEN m
    ELSE memcpy(wr(m, dst, m[src]), dst + ALIGN, src + ALIGN, n - ALIGN)

\* whether [a, a + n) lies in the heap below the break, and whether it lies
\* in the memory up to the end of the page of the highest break
InHeap(h, a, n) == a >= HEAP_BASE /\ a + n <= h.brk
InMem(a, n) == a >= HEAP_BASE /\ a + n <= HEAP_LIMIT + HDR

\* calloc without the test of the product
calloc_unchecked(h, num, sz) ==
    IF num = 0 \/ sz = 0
    THEN [h |-> h, ret |-> NULL, sbrk |-> -1, beyond |-> FALSE]
    ELSE LET r == malloc(h, (num * sz) % UWORD)
         IN  IF r.ret = NULL \/ r.h.dead THEN r
             ELSE IF ~InMem(r.ret, num * sz)
             THEN [r EXCEPT !.h = Dead(h), !.ret = NULL]
             ELSE [r EXCEPT !.h.mem = memset_zero(r.h.mem, r.ret, (num * sz) % UWORD)]

(* calloc(num, sz): null for a zero count or size and for a product that   *)
(* does not fit 64 bits; else malloc(num * sz) and, when that succeeds,    *)
(* the payload zeroed over num * sz bytes.  A memset that reaches past the *)
(* break lands while it stays in the page the break lies in, and faults    *)
(* beyond.                                                                  *)
calloc(h, num, sz) ==
    IF num = 0 \/ sz = 0
    THEN [h |-> h, ret |-> NULL, sbrk |-> -1, beyond |-> FALSE]
    ELSE IF num > UINT64_MAX \div sz
    THEN [h |-> h, ret |-> NULL, sbrk |-> -1, beyond |-> FALSE]
    ELSE LET r == malloc(h, num * sz)
         IN  IF r.ret = NULL \/ r.h.dead THEN r
             ELSE IF ~InMem(r.ret, num * sz)
             THEN [r EXCEPT !.h = Dead(h), !.ret = NULL]
             ELSE [r EXCEPT !.h.mem = memset_zero(r.h.mem, r.ret, num * sz),
                            !.beyond = r.beyond \/ ~InHeap(r.h, r.ret, num * sz)]

\* a realloc that moves the block and copies nothing
realloc_no_copy(h, ptr, sz) ==
    IF ptr = NULL THEN malloc(h, sz)
    ELSE IF sz = 0
    THEN [h |-> free(h, ptr), ret |-> NULL, sbrk |-> -1, beyond |-> FALSE]
    ELSE LET block == (ptr - HDR) % UWORD
             r == malloc(h, sz)
         IN  IF b_size(h.mem, block) >= (sz + HDR) % UWORD
             THEN [h |-> h, ret |-> ptr, sbrk |-> -1, beyond |-> FALSE]
             ELSE IF r.ret = NULL \/ r.h.dead THEN r
             ELSE [r EXCEPT !.h = free(r.h, ptr)]

(* realloc(ptr, sz): malloc(sz) for a null ptr; free(ptr) and null for a   *)
(* zero size; ptr itself when the block's size is at least sz plus the     *)
(* header (the sum taken in 64 bits); else a new block from malloc, the    *)
(* old payload copied into it and the old block freed.  A failed malloc    *)
(* leaves the old block as it was.  A copy that reaches past the break     *)
(* lands while it stays in the page the break lies in, and faults beyond.  *)
realloc(h, ptr, sz) ==
    IF ptr = NULL THEN malloc(h, sz)
    ELSE IF sz = 0
    THEN [h |-> free(h, ptr), ret |-> NULL, sbrk |-> -1, beyond |-> FALSE]
    ELSE LET block == (ptr - HDR) % UWORD
             r == malloc(h, sz)
             n == (b_size(r.h.mem, block) - HDR) % UWORD
         IN  IF b_size(h.mem, block) >= (sz + HDR) % UWORD
             THEN [h |-> h, ret |-> ptr, sbrk |-> -1, beyond |-> FALSE]
             ELSE IF r.ret = NULL \/ r.h.dead THEN r
             ELSE IF ~InMem(r.ret, n) \/ ~InMem(ptr, n)
             THEN [r EXCEPT !.h = Dead(h), !.ret = NULL]
             ELSE [r EXCEPT !.h = free([r.h EXCEPT !.mem = memcpy(r.h.mem, r.ret, ptr, n)],
                                       ptr),
                            !.beyond = r.beyond \/ ~InHeap(r.h, r.ret, n)
                                                \/ ~InHeap(r.h, ptr, n)]

(* heap_info(info).  The arrays it hands out are static buffers of         *)
(* INFO_CAP entries (1024 in the source, scaled).                           *)
INFO_CAP == 2

\* the first walk: free_space and largest_free_chunk over the freed blocks
RECURSIVE info_free(_, _, _, _)
info_free(m, L, free_space, largest) ==
    IF L = <<>> THEN [free_space |-> free_space, largest |-> largest]
    ELSE IF b_freed(m, Head(L)) # 0
    THEN info_free(m, Tail(L), free_space + b_size(m, Head(L)),
                   IF b_size(m, Head(L)) > largest THEN b_size(m, Head(L)) ELSE largest)
    ELSE info_free(m, Tail(L), free_space, largest)

\* the second walk: (usable size, payload pointer) of every block not freed
RECURSIVE info_fill(_, _)
info_fill(m, L) ==
    IF L = <<>> THEN <<>>
    ELSE IF b_freed(m, Head(L)) = 0
    THEN <<[size |-> b_size(m, Head(L)) - HDR, ptr |-> Head(L) + HDR]>>
           \o info_fill(m, Tail(L))
    ELSE info_fill(m, Tail(L))

\* a sort that moves the sizes and leaves the pointers where they were
RECURSIVE bubble_sizes_only(_, _, _, _)
bubble_sizes_only(A, n, i, j) ==
    IF i >= n - 1 THEN A
    ELSE IF j >= n - i - 1 THEN bubble_sizes_only(A, n, i + 1, 0)
    ELSE IF A[j + 1].size < A[j + 2].size
    THEN bubble_sizes_only([A EXCEPT ![j + 1].size = A[j + 2].size,
                                     ![j + 2].size = A[j + 1].size], n, i, j + 1)
    ELSE bubble_sizes_only(A, n, i, j + 1)

\* the bubble sort over the first n entries, larger sizes first, each swap
\* moving the size and its pointer together; i and j are the loop indices
RECURSIVE bubble(_, _, _, _)
bubble(A, n, i, j) ==
    IF i >= n - 1 THEN A
    ELSE IF j >= n - i - 1 THEN bubble(A, n, i + 1, 0)
    ELSE IF A[j + 1].size < A[j + 2].size
    THEN bubble([A EXCEPT ![j + 1] = A[j + 2], ![j + 2] = A[j + 1]], n, i, j + 1)
    ELSE bubble(A, n, i, j + 1)

NoInfo == [ret |-> -1, num_allocs |-> 0, free_space |-> 0,
           largest_free_chunk |-> 0, array |-> <<>>]

\* heap_info with a non-null info: what it returns and stores in *info; the
\* two arrays are kept as one sequence of (size, ptr) pairs
heap_info(h) ==
    LET L == List(h)
        f == info_free(h.mem, L, 0, 0)
        A == info_fill(h.mem, L)
        n == IF h.total_allocations < Len(A) THEN h.total_allocations ELSE Len(A)
        out == [ret |-> 0, num_allocs |-> h.total_allocations,
                free_space |-> f.free_space,
                largest_free_chunk |-> f.largest, array |-> <<>>]
    IN  IF h.total_allocations = 0 THEN out
        ELSE IF h.total_allocations > INFO_CAP THEN [out EXCEPT !.ret = -1]
        ELSE [out EXCEPT !.array = bubble(A, n, 0, 0)]

(***************************************************************************)
(* The allocator's calls, made by one process.  The requested sizes are   *)
(* zero, a size that rounds up, a larger size whose block can be split,    *)
(* and a size near 2^64 whose rounding wraps.  free is passed a null       *)
(* pointer or a live pointer: the payload of a not-freed block of the      *)
(* list.  A header stored above the break lands when its page is still     *)
(* mapped and kills the process when it is not.                            *)
(***************************************************************************)
MallocSizes == {0, 1, 48, UWORD - 1}

LivePtrs(h) ==
    LET L == List(h)
    IN  {L[i] + HDR : i \in {j \in 1 .. Len(L) : b_freed(h.mem, L[j]) = 0}}

Malloc(sz) ==
    /\ ~heap.dead
    /\ LET r == malloc(heap, sz)
       IN  \E landed \in BOOLEAN :
             /\ landed \/ r.beyond
             /\ heap' = IF landed THEN r.h ELSE Dead(heap)
             /\ ulast' = [op |-> "malloc", arg |-> sz,
                          ret |-> IF landed THEN r.ret ELSE NULL,
                          sbrk |-> r.sbrk, paired |-> FALSE, pre |-> heap]
    /\ UNCHANGED kvars

Free(ptr) ==
    /\ ~heap.dead
    /\ heap' = free(heap, ptr)
    /\ ulast' = [op |-> "free", arg |-> ptr, ret |-> NULL, sbrk |-> -1,
                 paired |-> ulast.op = "malloc" /\ ptr # NULL /\ ulast.ret = ptr,
                 pre |-> IF ulast.op = "malloc" /\ ptr # NULL /\ ulast.ret = ptr
                         THEN ulast.pre ELSE HeapInit]
    /\ UNCHANGED kvars

Defrag ==
    /\ ~heap.dead
    /\ heap' = defrag(heap).h
    /\ ulast' = [op |-> "defrag", arg |-> 0, ret |-> NULL, sbrk |-> -1,
                 paired |-> FALSE, pre |-> heap]
    /\ UNCHANGED kvars

NextMalloc ==
    \/ \E sz \in MallocSizes : Malloc(sz)
    \/ \E ptr \in LivePtrs(heap) \cup {NULL} : Free(ptr)
    \/ Defrag

SpecMalloc == InitSys /\ [][NextMalloc]_vars

(***************************************************************************)
(* All the calls of the allocator.  calloc is called with a zero count, a  *)
(* zero size, a product that overflows and one that does not; realloc with *)
(* a null or live pointer and a size of zero, one that fits every block    *)
(* and two that do not fit the smallest.                                    *)
(***************************************************************************)
AllocSizes == {0, 1, 16, 48}
CallocArgs == {<<0, 1>>, <<1, 0>>, <<2, UWORD \div 2 + 4>>, <<2, 4>>}

Calloc(num, sz) ==
    /\ ~heap.dead
    /\ LET r == calloc(heap, num, sz)
       IN  \E landed \in BOOLEAN :
             /\ landed \/ r.beyond
             /\ heap' = IF landed THEN r.h ELSE Dead(heap)
             /\ ulast' = [op |-> "calloc", arg |-> sz, num |-> num,
                          ret |-> IF landed THEN r.ret ELSE NULL,
                          sbrk |-> r.sbrk, paired |-> FALSE, pre |-> heap]
    /\ UNCHANGED kvars

Realloc(ptr, sz) ==
    /\ ~heap.dead
    /\ LET r == realloc(heap, ptr, sz)
       IN  \E landed \in BOOLEAN :
             /\ landed \/ r.beyond
             /\ heap' = IF landed THEN r.h ELSE Dead(heap)
             /\ ulast' = [op |-> "realloc", arg |-> sz, ptr |-> ptr,
                          ret |-> IF landed THEN r.ret ELSE NULL,
                          sbrk |-> r.sbrk, paired |-> FALSE, pre |-> heap]
    /\ UNCHANGED kvars

\* heap_info(&info) with info outside the heap; a list that never ends
\* keeps the walk going for ever
HeapInfo ==
    /\ ~heap.dead
    /\ heap' = IF Walkable(heap) THEN heap ELSE Dead(heap)
    /\ ulast' = [op |-> "heap_info", arg |-> 0,
                 ret |-> IF Walkable(heap) THEN heap_info(heap).ret ELSE NULL,
                 sbrk |-> -1, paired |-> FALSE, pre |-> heap,
                 info |-> IF Walkable(heap) THEN heap_info(heap) ELSE NoInfo]
    /\ UNCHANGED kvars

NextAlloc ==
    \/ \E sz \in AllocSizes : Malloc(sz)
    \/ \E a \in CallocArgs : Calloc(a[1], a[2])
    \/ \E ptr \in LivePtrs(heap) \cup {NULL}, sz \in AllocSizes : Realloc(ptr, sz)
    \/ \E ptr \in LivePtrs(heap) \cup {NULL} : Free(ptr)
    \/ Defrag
    \/ HeapInfo

SpecAlloc == InitSys /\ [][NextAlloc]_vars

(***************************************************************************)
(* realloc with data in the payloads.  The process stores a value in the   *)
(* words of its live payloads, so that a copy can be told from fresh       *)
(* memory and from a copy of other words.  realloc is asked for a size     *)
(* that fits, for sizes that force a move, and for 2^64 - 1.               *)
(***************************************************************************)
\* the words of the payloads of the blocks that are not freed
PayloadWords(h) ==
    {a \in MemAddrs : \E b \in Blocks(h) :
        /\ b_freed(h.mem, b) = 0
        /\ a >= b + HDR
        /\ a < b + b_size(h.mem, b)}

\* a store of the process into a payload it owns
Store(a, v) ==
    /\ ~heap.dead
    /\ heap' = [heap EXCEPT !.mem = wr(heap.mem, a, v)]
    /\ ulast' = [op |-> "store", arg |-> v, ret |-> NULL, sbrk |-> -1,
                 paired |-> FALSE, pre |-> HeapInit]
    /\ UNCHANGED kvars

NextData ==
    \/ \E sz \in {1, 16} : Malloc(sz)
    \/ \E a \in PayloadWords(heap) : Store(a, 5)
    \/ \E ptr \in LivePtrs(heap) \cup {NULL}, sz \in {0, 1, 16, 24, UWORD - 1} : Realloc(ptr, sz)
    \/ \E ptr \in LivePtrs(heap) \cup {NULL} : Free(ptr)

SpecData == InitSys /\ [][NextData]_vars

(***************************************************************************)
(* Requests whose size plus header passes 2^64: malloc computes a total    *)
(* that, taken as sbrk's signed increment, is negative.  realloc is called *)
(* with a live pointer and a size that does not fit the smallest block.    *)
(***************************************************************************)
NextWrap ==
    \/ \E sz \in {1, UWORD - 40} : Malloc(sz)
    \/ \E ptr \in LivePtrs(heap) : Realloc(ptr, 16)
    \/ \E ptr \in LivePtrs(heap) \cup {NULL} : Free(ptr)

SpecWrap == InitSys /\ [][NextWrap]_vars
(***************************************************************************)
(* Claims about the allocator                                              *)
(***************************************************************************)
Entry(h, b) == [addr |-> b, size |-> b_size(h.mem, b), freed |-> b_freed(h.mem, b)]
Entries(h) == [i \in 1 .. Len(List(h)) |-> Entry(h, List(h)[i])]

(* two consecutive blocks of the list, both freed, the second starting     *)
(* where the first ends                                                     *)
AdjacentFreed(h) ==
    LET E == Entries(h)
    IN  {i \in 1 .. Len(E) - 1 :
           /\ E[i].freed # 0
           /\ E[i + 1].freed # 0
           /\ E[i].addr + E[i].size = E[i + 1].addr}

(* C17: after free(ptr) on a live pointer no two consecutive freed blocks  *)
(* of the list are physically adjacent: free has merged the block with a   *)
(* freed adjacent successor and then with a freed adjacent predecessor.    *)
C17_FreeCoalesces ==
    (ulast.op = "free" /\ ulast.arg # NULL /\ ~heap.dead)
        => AdjacentFreed(heap) = {}
(* a free that was passed the pointer the malloc call just before it       *)
(* returned; ulast.pre is the allocator before that malloc                 *)
PairDone == ulast.op = "free" /\ ulast.paired /\ ~heap.dead
PairGrew == heap.brk # ulast.pre.brk
PairSplit == /\ heap.brk = ulast.pre.brk
             /\ Len(Entries(heap)) = Len(Entries(ulast.pre)) + 1

MallocDone == ulast.op = "malloc" /\ ulast.arg > 0 /\ ~heap.dead
Fits(h, total) ==
    {i \in 1 .. Len(Entries(h)) :
       Entries(h)[i].freed = 1 /\ Entries(h)[i].size >= total}
BestOf(h, total) ==
    CHOOSE i \in Fits(h, total) :
      \A k \in Fits(h, total) :
        \/ Entries(h)[k].size > Entries(h)[i].size
        \/ Entries(h)[k].size = Entries(h)[i].size /\ k >= i

(* malloc's contract for a request whose block, header included, is to    *)
(* have `total` bytes.  When some freed block has at least that size,      *)
(* malloc returns the payload of the smallest such block, the first one in *)
(* list order among equals, marks it not freed and does not call sbrk.     *)
(* Only when no freed block fits does it call sbrk, with exactly the total *)
(* size, and on success the break has grown by that much and a new         *)
(* not-freed block of that size is the last block of the list.             *)
BestFitWith(total) ==
    LET E0 == Entries(ulast.pre)
        F == Fits(ulast.pre, total)
    IN  /\ F # {} =>
             LET b == E0[BestOf(ulast.pre, total)].addr
             IN  /\ ulast.ret = b + HDR
                 /\ b_freed(heap.mem, b) = 0
                 /\ ulast.sbrk = -1
                 /\ heap.brk = ulast.pre.brk
        /\ F = {} <=> ulast.sbrk # -1
        /\ ulast.sbrk # -1 =>
             /\ ulast.sbrk = total
             /\ IF ulast.ret = NULL
                THEN heap = ulast.pre
                ELSE /\ heap.brk = ulast.pre.brk + total
                     /\ ulast.ret = ulast.pre.brk + HDR
                     /\ Entries(heap) = Append(E0, [addr |-> ulast.pre.brk,
                                                    size |-> total,
                                                    freed |-> 0])

WellFormed(h) ==
    LET E == Entries(h)
    IN  /\ Walkable(h)
        /\ \A i \in 1 .. Len(E) :
             /\ E[i].addr >= HEAP_BASE
             /\ E[i].addr + E[i].size <= h.brk
             /\ E[i].size >= HDR
             /\ E[i].size % ALIGN = 0
             /\ E[i].freed \in {0, 1}
             /\ b_prev(h.mem, E[i].addr) = IF i = 1 THEN NULL ELSE E[i - 1].addr
             /\ i < Len(E) => E[i].addr + E[i].size <= E[i + 1].addr

RECURSIVE SumSizes(_)
SumSizes(E) == IF E = <<>> THEN 0 ELSE Head(E).size + SumSizes(Tail(E))

LiveEntries(h) == SelectSeq(Entries(h), LAMBDA e : e.freed = 0)

(* the blocks of E that lie inside the block e *)
Within(E, e) ==
    SelectSeq(E, LAMBDA x : x.addr >= e.addr /\ x.addr + x.size <= e.addr + e.size)

DefragDone == ulast.op = "defrag" /\ WellFormed(ulast.pre) /\ ~ulast.pre.dead

(* C20: defrag() terminates on every well-formed list; afterwards no two   *)
(* consecutive freed blocks are physically adjacent; no live block has     *)
(* changed (address, size, flag); the total bytes covered by the list are  *)
(* unchanged; and freed blocks that were adjacent have become one block of *)
(* the summed size: two adjacent freed allocations end as one block.       *)
C20_DefragMerges ==
    DefragDone =>
        LET E == Entries(heap)
            E0 == Entries(ulast.pre)
        IN  /\ ~heap.dead
            /\ AdjacentFreed(heap) = {}
            /\ LiveEntries(heap) = LiveEntries(ulast.pre)
            /\ SumSizes(E) = SumSizes(E0)
            /\ \A i \in 1 .. Len(E) :
                 /\ Within(E0, E[i]) # <<>>
                 /\ E[i].size = SumSizes(Within(E0, E[i]))
                 /\ E[i].addr = Within(E0, E[i])[1].addr
            /\ \A i \in AdjacentFreed(ulast.pre) :
                 \E j \in 1 .. Len(E) :
                   /\ E[j].freed = 1
                   /\ Len(Within(<<E0[i], E0[i + 1]>>, E[j])) = 2

C20_Witness ==
    /\ DefragDone
    /\ ~heap.dead
    /\ AdjacentFreed(ulast.pre) # {}
    /\ LiveEntries(heap) # <<>>
    /\ Len(Entries(heap)) = Len(Entries(ulast.pre)) - 1

(***************************************************************************)
(* Claims on the failure paths of the fault handler, on the return path   *)
(* and on the frame of the heap operations                                 *)
(***************************************************************************)
\* leaf entries of any page table that point at frame f
LeavesAt(pts, f) ==
    {pv \in Pids \X VPages : Mapped(pts, pv[1], pv[2]) /\ Leaf(pts, pv[1], pv[2]).pn = f}

ResumingCalls == {"getpid", "fork", "brk", "sbrk", "page_alloc", "mapping", "mem_tog"}

\* C27: after getpid, fork, brk, sbrk, page_alloc, mapping or mem_tog the
\* caller is still runnable and is the process that runs next; another
\* process becomes current only on a timer tick, a yield, an exit, or when
\* the current process is not runnable at the end of the trap
C27_SyscallResumesCaller ==
    [][/\ last'.trap \in ResumingCalls
            => /\ processes'[current].p_state = P_RUNNABLE
               /\ current' = current
       /\ current' # current
            => \/ last'.trap \in {"timer", "yield", "exit"}
               \/ processes'[current].p_state # P_RUNNABLE]_vars

\* a fork made a runnable child and the parent went on running
C27_Witness ==
    /\ last.trap = "fork"
    /\ last.rax \in Pids
    /\ processes[last.rax].p_state = P_RUNNABLE
    /\ last.rax # last.pid
    /\ current = last.pid

C29_HeapOpsStayInHeap ==
    [][(last'.trap \in BreakCall \/ (last'.trap = "pagefault" /\ last'.kind # "other"))
        => LET pid == last'.pid IN
           /\ \A q \in Pids \ {pid} :
                /\ pagetable'[q] = pagetable[q]
                /\ processes'[q] = processes[q]
           /\ pagetable'[pid].root = pagetable[pid].root
           /\ pagetable'[pid].tab = pagetable[pid].tab
           /\ processes'[pid].original_break = processes[pid].original_break
           /\ \A vp \in VPages :
                Leaf(pagetable', pid, vp) # Leaf(pagetable, pid, vp)
                  => /\ PAGEADDRESS(vp) >= processes[pid].original_break
                     /\ PAGEADDRESS(vp) < MEMSIZE_VIRTUAL - PAGESIZE]_vars

\* a shrink has unmapped a heap page of one process while another process,
\* with a break of its own above its original break, is runnable
C29_Witness ==
    /\ last.trap \in BreakCall
    /\ last.freed >= 1
    /\ \E vp \in HeapVPages : ~Mapped(pagetable, last.pid, vp)
    /\ \E q \in Pids \ {last.pid} :
         /\ processes[q].p_state = P_RUNNABLE
         /\ processes[q].program_break > processes[q].original_break

(***************************************************************************)
(* Claims about the whole interface of the allocator                       *)
(***************************************************************************)
LiveBlocks(h) == {b \in Blocks(h) : b_freed(h.mem, b) = 0}

\* C21: after any sequence of malloc, calloc, realloc, free and defrag calls
\* with free and realloc given null or live pointers, total_allocations is
\* the number of blocks of the list that are not freed, also after a malloc
\* that failed in sbrk and after a realloc that moved its block
C21_CountIsLive ==
    ~heap.dead => heap.total_allocations = Cardinality(LiveBlocks(heap))

\* the calls that hand a pointer to the caller
Returning == {"malloc", "calloc", "realloc"}

\* C22: after any sequence of allocator calls the list from head ends, is in
\* strictly increasing address order and is linked consistently both ways
\* (head has no predecessor, the successor of b has b as predecessor); every
\* block is on it, i.e. the blocks of the list account for every byte
\* obtained from sbrk; and a pointer returned to the caller is the address of
\* a not-freed block of the list plus the header size, never a block address
C22_ListOrderedAndLinked ==
    ~heap.dead =>
      LET E == Entries(heap) IN
      /\ Walkable(heap)
      /\ \A i \in 1 .. Len(E) :
           /\ b_prev(heap.mem, E[i].addr) = IF i = 1 THEN NULL ELSE E[i - 1].addr
           /\ i < Len(E) => E[i].addr < E[i + 1].addr
      /\ SumSizes(E) = heap.brk - HEAP_BASE
      /\ (ulast.op \in Returning /\ ulast.ret # NULL)
            => /\ ulast.ret - HDR \in LiveBlocks(heap)
               /\ ulast.ret \notin Blocks(heap)

\* a realloc of a live pointer with a size above zero that returned a pointer
ReallocDone ==
    /\ ulast.op = "realloc"
    /\ ulast.ptr # NULL
    /\ ulast.arg > 0
    /\ ulast.ret # NULL
    /\ ~heap.dead

\* the payload size of the block before the call, and what must be kept
OldPayload == b_size(ulast.pre.mem, ulast.ptr - HDR) - HDR
Kept == IF OldPayload < ulast.arg THEN OldPayload ELSE ulast.arg

\* C23: realloc(p, new) with p live and new > 0 that returns q # NULL keeps
\* the first min(old payload, new) bytes: they are at q what they were at p
\* before the call.  When q = p nothing in the heap has changed; when q # p,
\* q is the payload of a not-freed block and the block of p is freed
C23_ReallocKeepsData ==
    ReallocDone =>
      /\ \A a \in MemAddrs :
           (a >= ulast.ptr /\ a - ulast.ptr < Kept)
             => /\ ulast.ret + (a - ulast.ptr) \in MemAddrs
                /\ heap.mem[ulast.ret + (a - ulast.ptr)] = ulast.pre.mem[a]
      /\ ulast.ret = ulast.ptr => heap = ulast.pre
      /\ ulast.ret # ulast.ptr
           => /\ b_freed(heap.mem, ulast.ptr - HDR) = 1
              /\ ulast.ret - HDR \in LiveBlocks(heap)

\* a realloc moved a block whose two payload words held different values
C23_Witness ==
    /\ ReallocDone
    /\ ulast.ret # ulast.ptr
    /\ OldPayload = 16
    /\ heap.mem[ulast.ret] = 5
    /\ heap.mem[ulast.ret + ALIGN] = 0
    /\ ulast.pre.mem[ulast.ret] # 5

\* a call of heap_info that returned
HeapInfoDone == ulast.op = "heap_info" /\ ~heap.dead

FreedBlocks(h) == Blocks(h) \ LiveBlocks(h)

RECURSIVE SumOver(_, _)
SumOver(m, S) ==
    IF S = {} THEN 0
    ELSE LET b == CHOOSE x \in S : TRUE IN b_size(m, b) + SumOver(m, S \ {b})

LargestOf(m, S) ==
    IF S = {} THEN 0 ELSE CHOOSE v \in {b_size(m, b) : b \in S} :
                             \A b \in S : b_size(m, b) <= v

Degenerate(u) ==
    \/ u.op = "malloc" /\ u.arg = 0
    \/ u.op = "calloc" /\ (u.num = 0 \/ u.arg = 0 \/ u.num * u.arg > UINT64_MAX)
    \/ u.op = "free" /\ u.arg = NULL

\* C25: malloc(0), calloc(0, x), calloc(x, 0), a calloc whose product does
\* not fit 64 bits, and free(NULL) return null (free returns) and leave the
\* list, the live count and the break as they were, without a call of sbrk
C25_DegenerateNoEffect ==
    [][Degenerate(ulast')
        => /\ heap' = heap
           /\ ulast'.ret = NULL
           /\ ulast'.sbrk = -1]_vars

\* a calloc whose product overflows was refused on a heap that has a freed
\* block large enough for the wrapped product
C25_Witness ==
    /\ ulast.op = "calloc"
    /\ ulast.num * ulast.arg > UINT64_MAX
    /\ ulast.ret = NULL
    /\ \E b \in FreedBlocks(heap) :
         b_size(heap.mem, b) >= total_size((ulast.num * ulast.arg) % UWORD)

\* C30: for every request size sz > 0, also one within 8 of 2^64 whose
\* rounding and header addition wrap, malloc(sz) returns null or the payload
\* of a block whose size less the header is at least sz
C30_PayloadHoldsRequest ==
    (MallocDone /\ ulast.ret # NULL)
      => b_size(heap.mem, ulast.ret - HDR) - HDR >= ulast.arg

\* the payload bytes of two distinct not-freed blocks are disjoint, and no
\* payload of a not-freed block covers a byte of a block's header
PayloadsApart(h) ==
    \A b \in LiveBlocks(h) : \A c \in Blocks(h) :
       c # b =>
         \/ c + HDR <= b + HDR
         \/ c >= b + b_size(h.mem, b)

\* C31: after any sequence of malloc, calloc, realloc, free of live pointers
\* and defrag, the blocks of the list tile the region obtained from sbrk: the
\* first block starts at the first sbrk result, each block ends where its
\* successor starts, the last block ends at the break, every size is a
\* multiple of 8 and at least the header size plus 8; hence payloads of
\* distinct live allocations overlap neither each other nor any header
C31_BlocksTileHeap ==
    ~heap.dead =>
      LET E == Entries(heap) IN
      /\ Walkable(heap)
      /\ IF Len(E) = 0
         THEN heap.brk = HEAP_BASE
         ELSE /\ E[1].addr = HEAP_BASE
              /\ E[Len(E)].addr + E[Len(E)].size = heap.brk
      /\ \A i \in 1 .. Len(E) :
           /\ i < Len(E) => E[i].addr + E[i].size = E[i + 1].addr
           /\ E[i].size % ALIGN = 0
           /\ E[i].size >= HDR + 8
      /\ PayloadsApart(heap)

====
